---- MODULE Spec2Model ----
(***************************************************************************)
(* Model of the Rust SCMM Discord bot (src/bot): the Market Data Client of *)
(* scmm_client.py (price normalization, market breakdown, market URLs, the *)
(* fetch operations over HTTP).                                            *)
(*                                                                         *)
(* Representation.                                                         *)
(*  - A JSON / Python value is a tagged record: [t |-> "none"] is None or  *)
(*    an absent key (dict.get gives None for both), [t |-> "num", n |-> n] *)
(*    a number, [t |-> "str", s |-> s] a string, [t |-> "bool", b |-> b]   *)
(*    a boolean, [t |-> "list", l |-> seq] a list.                         *)
(*  - A number n stands for n / Unit: prices are kept in ten-thousandths,  *)
(*    so that 50.01 and 50.01 / 100 are both exact.                        *)
(*  - A string is a sequence of one-character strings where the code looks *)
(*    inside it (split, strip, quote, comparison), and a sequence of words *)
(*    where the code only concatenates it and searches it (messages).      *)
(***************************************************************************)
EXTENDS Integers, Sequences, FiniteSets, TLC

VARIABLES
    \* ---- price normalization (the four places that normalize a price)
    v,            \* the JSON value given as the price
    rawItem,      \* the raw store item handed to _normalize_store_item
    outExtract,   \* result of extract_store_price_from_details
    outNorm,      \* result of get_market_breakdown._norm_price
    outItem,      \* StoreItem.store_price from _normalize_store_item
    outStats,     \* the store price _build_stats_block shows
    \* ---- get_market_breakdown / extract_market_urls
    details,      \* the item detail document
    bd,           \* the Market Breakdown computed from details
    urls,         \* the Market URL Set computed from details
    \* ---- one invocation of a fetch operation of the Market Data Client
    op,           \* the operation invoked
    arg,          \* its argument (target date, store id, item, name)
    pc,           \* "idle", "http1" / "http2" (awaiting the first / second GET), "done"
    requests,     \* the URLs of the HTTP GETs the invocation issued, in order
    responses,    \* what the remote end answered to them, in order
    stores,       \* fetch_store_items_for_date: the store list
    chosen,       \* fetch_store_items_for_date: the chosen store
    outcome,      \* how the invocation ended: a returned value or a raised error
    \* ---- the renderers of embeds.py, applied to the item detail document `details`
    include_third_party,  \* the flag given to _render_market_lines
    price_block,  \* the text _render_market_lines returned
    stats_block,  \* the text _build_stats_block returned, or None
    view,         \* what build_iteminfo_view returned: the buttons of the view, or None
    \* ---- the commands of main.py and the deletion timers
    inv,          \* the command invocations: arguments, position, locals, and what each
                  \* requested, was answered and sent
    channel,      \* the messages sent to Discord, in order; a message's id is its index
    timers,       \* the _delete_later tasks created, in order
    deletions,    \* the ids of the messages message.delete() was called on, in order
    \* ---- the autocomplete callback of /item_lookup
    typed,        \* the argument "current": what the user has typed so far
    choices       \* the list of choices the callback returned

normVars == <<v, rawItem, outExtract, outNorm, outItem, outStats>>
docVars == <<details, bd, urls>>
fetchVars == <<op, arg, pc, requests, responses, stores, chosen, outcome>>
embedVars == <<include_third_party, price_block, stats_block, view>>
botVars == <<inv, channel, timers, deletions>>
suggestVars == <<typed, choices>>
vars == <<normVars, docVars, fetchVars, embedVars, botVars, suggestVars>>

-----------------------------------------------------------------------------
(* JSON / Python values *)

\* a number n stands for n / Unit
Unit == 10000

None == [t |-> "none"]
Unset == [t |-> "unset"]          \* a result variable before its operation ran
Num(n) == [t |-> "num", n |-> n]
Str(s) == [t |-> "str", s |-> s]
Bool(b) == [t |-> "bool", b |-> b]
List(s) == [t |-> "list", l |-> s]
Other == [t |-> "other"]          \* a JSON value of none of the shapes a reader accepts

\* the parts of the state a specification does not use
NormUnused ==
    /\ v = Unset /\ rawItem = Unset
    /\ outExtract = Unset /\ outNorm = Unset /\ outItem = Unset /\ outStats = Unset
DocUnused == details = Unset /\ bd = Unset /\ urls = Unset
FetchUnused ==
    /\ op = Unset /\ arg = Unset /\ pc = "idle" /\ requests = <<>> /\ responses = <<>>
    /\ stores = Unset /\ chosen = Unset /\ outcome = Unset
EmbedUnused ==
    /\ include_third_party = Unset /\ price_block = Unset /\ stats_block = Unset
    /\ view = Unset
BotUnused == inv = Unset /\ channel = <<>> /\ timers = <<>> /\ deletions = <<>>
SuggestUnused == typed = Unset /\ choices = Unset

\* isinstance(val, (int, float)); a JSON boolean is a Python bool, which is an int
IsNumber(x) == x.t \in {"num", "bool"}
\* float(val)
Float(x) == IF x.t = "bool" THEN (IF x.b THEN Unit ELSE 0) ELSE x.n
IsStr(x) == x.t = "str"
\* Python truthiness of a value (used by `a or b` and `if not a`)
Truthy(x) ==
    CASE x.t = "none" -> FALSE
      [] x.t = "num"  -> x.n # 0
      [] x.t = "bool" -> x.b
      [] x.t = "str"  -> x.s # <<>>
      [] x.t = "list" -> x.l # <<>>
      [] x.t = "emptydict" -> FALSE
      [] OTHER        -> TRUE
\* a or b
Or(a, b) == IF Truthy(a) THEN a ELSE b

-----------------------------------------------------------------------------
(* Numbers: n stands for n / Unit *)

Fifty == 50 * Unit
Hundred == 100

\* ---- extract_store_price_from_details (scmm_client.py:335-346)
extract_store_price_from_details_ge(d) ==
    LET val == d.storePrice IN
    IF ~IsNumber(val) THEN None
    ELSE LET x == Float(val) IN Num(IF x >= Fifty THEN x \div Hundred ELSE x)

extract_store_price_from_details(d) ==
    LET val == d.storePrice IN
    IF ~IsNumber(val) THEN None
    ELSE LET x == Float(val) IN Num(IF x > Fifty THEN x \div Hundred ELSE x)

\* ---- get_market_breakdown._norm_price (scmm_client.py:401-406)
norm_price_always_cents(val) ==
    IF ~IsNumber(val) THEN None
    ELSE LET x == Float(val) IN Num(x \div Hundred)

norm_price(val) ==
    IF ~IsNumber(val) THEN None
    ELSE LET x == Float(val) IN Num(IF x > Fifty THEN x \div Hundred ELSE x)

\* ---- _normalize_store_item (scmm_client.py:151-194), the store price part
PriceKeys == <<"storePrice", "price", "usdPrice", "finalPrice">>

\* for key in (...): if isinstance(val, (int, float)): raw_price = float(val); break
RECURSIVE FirstNumeric(_, _)
FirstNumeric(raw, i) ==
    IF i > Len(PriceKeys) THEN None
    ELSE IF IsNumber(raw[PriceKeys[i]]) THEN Num(Float(raw[PriceKeys[i]]))
    ELSE FirstNumeric(raw, i + 1)

normalize_store_item_price(raw) ==
    LET raw_price == FirstNumeric(raw, 1) IN
    IF raw_price = None THEN None
    ELSE Num(IF raw_price.n > Fifty THEN raw_price.n \div Hundred ELSE raw_price.n)

\* ---- _build_stats_block (embeds.py:198-205), the store price it shows
stats_store_price(d) ==
    LET store_price == d.storePrice IN
    IF IsNumber(store_price)
    THEN LET x == Float(store_price) IN Num(IF x > Fifty THEN x \div Hundred ELSE x)
    ELSE None

-----------------------------------------------------------------------------
(* Specification SpecNorm: one price value through the four normalizers *)

MaxStep == 2      \* the inputs cover 50 - MaxStep/100 .. 50 + MaxStep/100 in steps of 0.01

\* numeric inputs, in ten-thousandths: around the boundary, and 0, -1, 0.5, 51, 200
NumericInputs ==
    { Fifty + d * Hundred : d \in (0 - MaxStep)..MaxStep }
        \cup {0, 0 - Unit, Unit \div 2, 51 * Unit, 200 * Unit}

PriceInputs == { Num(n) : n \in NumericInputs } \cup {None, Str(<<"4", "9">>), Bool(TRUE)}

\* what a price key of a raw store item holds when it is not the one under test
Fillers == {None, Str(<<"4", "9">>), Num(70 * Unit)}

OnlyStorePrice(x) == [storePrice |-> x]

\* a raw store item whose first numeric price key is PriceKeys[k], holding x
RawItemWith(k, x, before, after) ==
    [key \in {PriceKeys[i] : i \in 1..Len(PriceKeys)} |->
        LET i == CHOOSE j \in 1..Len(PriceKeys) : PriceKeys[j] = key IN
        IF i < k THEN before ELSE IF i = k THEN x ELSE after]

InitNorm ==
    /\ EmbedUnused /\ BotUnused /\ SuggestUnused
    /\ v \in PriceInputs
    /\ rawItem = Unset
    /\ outExtract = Unset /\ outNorm = Unset /\ outItem = Unset /\ outStats = Unset
    /\ DocUnused /\ FetchUnused

ExtractStorePrice ==
    /\ outExtract = Unset
    /\ outExtract' = extract_store_price_from_details(OnlyStorePrice(v))
    /\ UNCHANGED <<v, rawItem, outNorm, outItem, outStats, docVars, fetchVars, embedVars, botVars, suggestVars>>

NormPrice ==
    /\ outNorm = Unset
    /\ outNorm' = norm_price(v)
    /\ UNCHANGED <<v, rawItem, outExtract, outItem, outStats, docVars, fetchVars, embedVars, botVars, suggestVars>>

NormalizeStoreItem ==
    /\ outItem = Unset
    /\ \E k \in 1..Len(PriceKeys), before \in {f \in Fillers : ~IsNumber(f)}, after \in Fillers :
          /\ rawItem' = RawItemWith(k, v, before, after)
          /\ outItem' = normalize_store_item_price(rawItem')
    /\ UNCHANGED <<v, outExtract, outNorm, outStats, docVars, fetchVars, embedVars, botVars, suggestVars>>

StatsStorePrice ==
    /\ outStats = Unset
    /\ outStats' = stats_store_price(OnlyStorePrice(v))
    /\ UNCHANGED <<v, rawItem, outExtract, outNorm, outItem, docVars, fetchVars, embedVars, botVars, suggestVars>>

NextNorm == ExtractStorePrice \/ NormPrice \/ NormalizeStoreItem \/ StatsStorePrice

SpecNorm == InitNorm /\ [][NextNorm]_vars

NormOutputs == {outExtract, outNorm, outItem, outStats} \ {Unset}

\* C2: for every numeric price input v the normalized price is v/100 when v > 50 and
\* v itself when v <= 50 (50 is not divided, 50.01 is), and the four places that
\* normalize a price (extract_store_price_from_details, _norm_price,
\* _normalize_store_item, the store price of _build_stats_block) give the same result.
C2_NormalizationAgrees ==
    v.t = "num" =>
        /\ \A out \in NormOutputs :
              /\ out.t = "num"
              /\ v.n > Fifty => out.n * Hundred = v.n
              /\ v.n <= Fifty => out.n = v.n
        /\ Cardinality(NormOutputs) <= 1

\* 50.01 went through all four normalizers and came out as 0.5001
C2_Witness ==
    /\ v = Num(Fifty + Hundred)
    /\ outExtract = Num(5001) /\ outNorm = Num(5001)
    /\ outItem = Num(5001) /\ outStats = Num(5001)
    /\ rawItem # Unset /\ rawItem.storePrice = None

-----------------------------------------------------------------------------
(* get_market_breakdown (scmm_client.py:387-465) *)

\* a price entry of buyPrices / sellPrices that is a JSON object
Entry(mtype, price, avail, url, link, href) ==
    [t |-> "dict", marketType |-> mtype, price |-> price, isAvailable |-> avail,
     url |-> url, link |-> link, href |-> href]

SteamTags == {"SteamCommunityMarket", "SteamMarket"}
SkinportTag == "Skinport"
CSDealsTag == "CSDealsMarketplace"

\* the exact quotient a / b of two integers, b # 0, as a fraction in lowest terms
Abs(x) == IF x < 0 THEN 0 - x ELSE x
RECURSIVE GCD(_, _)
GCD(a, b) == IF b = 0 THEN a ELSE GCD(b, a % b)
Quotient(a, b) ==
    LET g == GCD(Abs(a), Abs(b))
        sgn == IF b < 0 THEN 0 - 1 ELSE 1
    IN [t |-> "ratio", p |-> (sgn * a) \div g, q |-> (sgn * b) \div g]

\* if steam_price is None or p < steam_price: steam_price = p
KeepLower(best, p) == IF best = None \/ p.n < best.n THEN p ELSE best

\* one iteration of the loop of scan(seq); acc holds the three nonlocal prices
scan_entry_ignoring_availability(acc, entry) ==
    IF entry.t # "dict" THEN acc
    ELSE LET mtype == entry.marketType
             p == norm_price(entry.price)
         IN IF p = None THEN acc
            ELSE IF mtype \in SteamTags
                 THEN [acc EXCEPT !.steam_price = KeepLower(@, p)]
            ELSE IF mtype = SkinportTag
                 THEN [acc EXCEPT !.skinport_price = KeepLower(@, p)]
            ELSE IF mtype = CSDealsTag
                 THEN [acc EXCEPT !.csdeals_price = KeepLower(@, p)]
            ELSE acc

scan_entry(acc, entry) ==
    IF entry.t # "dict" THEN acc
    ELSE IF entry.isAvailable = Bool(FALSE) THEN acc
    ELSE LET mtype == entry.marketType
             p == norm_price(entry.price)
         IN IF p = None THEN acc
            ELSE IF mtype \in SteamTags
                 THEN [acc EXCEPT !.steam_price = KeepLower(@, p)]
            ELSE IF mtype = SkinportTag
                 THEN [acc EXCEPT !.skinport_price = KeepLower(@, p)]
            ELSE IF mtype = CSDealsTag
                 THEN [acc EXCEPT !.csdeals_price = KeepLower(@, p)]
            ELSE acc

\* scan(seq): for entry in seq
RECURSIVE scan(_, _)
scan(acc, seq) ==
    IF seq = <<>> THEN acc ELSE scan(scan_entry(acc, Head(seq)), Tail(seq))

\* for key in ("buyPrices", "sellPrices"): if isinstance(seq, list): scan(seq)
ScanIfList(acc, x) == IF x.t = "list" THEN scan(acc, x.l) ELSE acc

\* steam_vs_store_pct
steam_vs_store(store_price, steam_price) ==
    IF store_price # None /\ steam_price # None /\ store_price.n # 0
    THEN Quotient((steam_price.n - store_price.n) * Hundred, store_price.n)
    ELSE None

\* _pct_vs_steam(price)
pct_vs_steam_reversed(steam_price, price) ==
    IF steam_price = None \/ price = None \/ steam_price.n = 0 THEN None
    ELSE Quotient((steam_price.n - price.n) * Hundred, steam_price.n)

pct_vs_steam(steam_price, price) ==
    IF steam_price = None \/ price = None \/ steam_price.n = 0 THEN None
    ELSE Quotient((price.n - steam_price.n) * Hundred, steam_price.n)

get_market_breakdown(d) ==
    LET store_price == extract_store_price_from_details(d)
        start == [steam_price |-> None, skinport_price |-> None, csdeals_price |-> None]
        found == ScanIfList(ScanIfList(start, d.buyPrices), d.sellPrices)
    IN [store_price |-> store_price,
        steam_price |-> found.steam_price,
        steam_vs_store_pct |-> steam_vs_store(store_price, found.steam_price),
        skinport_price |-> found.skinport_price,
        skinport_vs_steam_pct |-> pct_vs_steam(found.steam_price, found.skinport_price),
        csdeals_price |-> found.csdeals_price,
        csdeals_vs_steam_pct |-> pct_vs_steam(found.steam_price, found.csdeals_price)]

-----------------------------------------------------------------------------
(* Item detail documents *)

Details(storePrice, buyPrices, sellPrices, name, steamMarketUrl, steamMarketURL, steamUrl, skinportUrl, skinPortUrl) ==
    [t |-> "dict", storePrice |-> storePrice, buyPrices |-> buyPrices, sellPrices |-> sellPrices,
     name |-> name, steamMarketUrl |-> steamMarketUrl, steamMarketURL |-> steamMarketURL,
     steamUrl |-> steamUrl, skinportUrl |-> skinportUrl, skinPortUrl |-> skinPortUrl]

\* details.get(key) for a list key: the list, or None when the key is absent
ListOrAbsent(present, seq) == IF present THEN List(seq) ELSE None

-----------------------------------------------------------------------------
(* Specification SpecPrice: get_market_breakdown on an item detail document *)

MaxEntries == 2     \* price entries in buyPrices and sellPrices together

\* 0, 40 and 50.01 (normalized to 0.5001, below 40)
EntryPrices == {Num(0), Num(40 * Unit), Num(Fifty + Hundred)}
MarketTypes == SteamTags \cup {SkinportTag, CSDealsTag}

Availability == {Bool(TRUE), Bool(FALSE), None}

\* every venue tag with every price, available, marked unavailable or without the
\* isAvailable key; and an entry without a numeric price, one of a venue the code does
\* not know, and a list element that is no JSON object
PriceEntries ==
    { Entry(m, p, a, None, None, None) :
        m \in MarketTypes, p \in EntryPrices, a \in Availability }
        \cup { Entry("SteamMarket", None, Bool(TRUE), None, None, None),
               Entry("TradeitGG", Num(0), Bool(TRUE), None, None, None),
               Other }

StorePrices == {None, Num(0), Num(2 * Unit)}

InitPrice ==
    /\ DocUnused /\ NormUnused /\ FetchUnused /\ EmbedUnused /\ BotUnused /\ SuggestUnused

\* a call get_market_breakdown(d), d holding at most MaxEntries price entries
GetMarketBreakdown ==
    /\ details = Unset
    /\ \E sp \in StorePrices, i \in 0..MaxEntries, hasBuy \in BOOLEAN, hasSell \in BOOLEAN :
        \E j \in 0..(MaxEntries - i) :
          \E b \in [1..i -> PriceEntries], s \in [1..j -> PriceEntries] :
            /\ ~hasBuy => i = 0
            /\ ~hasSell => j = 0
            /\ details' = Details(sp, ListOrAbsent(hasBuy, b), ListOrAbsent(hasSell, s),
                                  None, None, None, None, None, None)
            /\ bd' = get_market_breakdown(details')
    /\ UNCHANGED <<urls, normVars, fetchVars, embedVars, botVars, suggestVars>>

NextPrice == GetMarketBreakdown

SpecPrice == InitPrice /\ [][NextPrice]_vars

\* the entries of buyPrices and sellPrices taken together
RECURSIVE SeqToSet(_)
SeqToSet(seq) == IF seq = <<>> THEN {} ELSE {Head(seq)} \cup SeqToSet(Tail(seq))
AllEntries(d) ==
    (IF d.buyPrices.t = "list" THEN SeqToSet(d.buyPrices.l) ELSE {})
        \cup (IF d.sellPrices.t = "list" THEN SeqToSet(d.sellPrices.l) ELSE {})

\* the prices, in ten-thousandths of a dollar, of the entries of a venue that are not
\* marked unavailable and carry a numeric price
AvailablePrices(d, tags) ==
    { IF e.price.n > Fifty THEN e.price.n \div Hundred ELSE e.price.n :
        e \in { x \in AllEntries(d) :
                  /\ x.t = "dict"
                  /\ x.marketType \in tags
                  /\ x.isAvailable # Bool(FALSE)
                  /\ x.price.t = "num" } }

BestPriceIs(reported, d, tags) ==
    LET S == AvailablePrices(d, tags) IN
    /\ reported = None <=> S = {}
    /\ S # {} => /\ reported.n \in S
                 /\ \A x \in S : reported.n <= x

\* C1: for each of the three venues the reported price is the minimum normalized price
\* over the entries of that venue in buyPrices and sellPrices together that are not
\* marked unavailable; an unavailable entry never determines it, and the venue price is
\* absent exactly when no available entry with a numeric price exists for the venue.
C1_BestAvailablePrice ==
    bd # Unset =>
        /\ BestPriceIs(bd.steam_price, details, SteamTags)
        /\ BestPriceIs(bd.skinport_price, details, {SkinportTag})
        /\ BestPriceIs(bd.csdeals_price, details, {CSDealsTag})

\* Skinport has an unavailable entry at 0.5001 in buyPrices and an available one at 40
\* in sellPrices: 40 is reported
C1_Witness ==
    /\ bd # Unset
    /\ details.buyPrices.t = "list" /\ details.sellPrices.t = "list"
    /\ \E i \in DOMAIN details.buyPrices.l :
          details.buyPrices.l[i] =
              Entry(SkinportTag, Num(Fifty + Hundred), Bool(FALSE), None, None, None)
    /\ \E i \in DOMAIN details.sellPrices.l :
          details.sellPrices.l[i] =
              Entry(SkinportTag, Num(40 * Unit), Bool(TRUE), None, None, None)
    /\ bd.skinport_price = Num(40 * Unit)

\* the delta of `new` against `base` is absent when an operand is absent or the base is
\* zero, and is otherwise the number (new - base) / base * 100
DeltaIs(pct, new, base) ==
    IF new = None \/ base = None THEN pct = None
    ELSE IF base.n = 0 THEN pct = None
    ELSE /\ pct # None
         /\ pct.q # 0
         /\ base.n % pct.q = 0
         /\ pct.p * (base.n \div pct.q) = (new.n - base.n) * Hundred

\* C3: each of the three deltas (Steam vs store, Skinport vs Steam, CS.Deals vs Steam)
\* is None whenever one of its operand prices is absent or its base (the store price for
\* the first, the Steam price for the others) is zero, and otherwise equals
\* (new - base) / base * 100.
C3_PercentageDeltas ==
    bd # Unset =>
        /\ DeltaIs(bd.steam_vs_store_pct, bd.steam_price, bd.store_price)
        /\ DeltaIs(bd.skinport_vs_steam_pct, bd.skinport_price, bd.steam_price)
        /\ DeltaIs(bd.csdeals_vs_steam_pct, bd.csdeals_price, bd.steam_price)

\* store 2.00, Steam 40, Skinport 0.5001: Steam is +1900 % against the store and
\* Skinport is -98.74975 % against Steam
C3_Witness ==
    /\ bd # Unset
    /\ bd.store_price = Num(2 * Unit)
    /\ bd.steam_price = Num(40 * Unit)
    /\ bd.skinport_price = Num(5001)
    /\ bd.steam_vs_store_pct = [t |-> "ratio", p |-> 1900, q |-> 1]
    /\ bd.skinport_vs_steam_pct = [t |-> "ratio", p |-> 0 - 394999, q |-> 4000]
    /\ bd.csdeals_vs_steam_pct = None

-----------------------------------------------------------------------------
(* extract_market_urls (scmm_client.py:473-565) *)

\* urllib.parse.quote(name, safe=""): letters, digits and "_.-~" stay, every other
\* character becomes %XX
Unreserved ==
    {"A", "U", "b", "k", "n", "o", "w", "_", ".", "-", "~",
     "0", "1", "2", "3", "4", "5", "6", "7", "8", "9"}
PercentCode(c) ==
    CASE c = " " -> <<"%", "2", "0">>
      [] c = "/" -> <<"%", "2", "F">>
      [] c = "+" -> <<"%", "2", "B">>
      [] c = "&" -> <<"%", "2", "6">>
      [] c = "\t" -> <<"%", "0", "9">>
QuoteChar(c) == IF c \in Unreserved THEN <<c>> ELSE PercentCode(c)
RECURSIVE quote(_)
quote(str) == IF str = <<>> THEN <<>> ELSE QuoteChar(Head(str)) \o quote(Tail(str))

\* urllib.parse.quote_plus(name): as quote, but a space becomes "+"
QuotePlusChar(c) == IF c = " " THEN <<"+">> ELSE QuoteChar(c)
RECURSIVE quote_plus(_)
quote_plus(str) == IF str = <<>> THEN <<>> ELSE QuotePlusChar(Head(str)) \o quote_plus(Tail(str))

SteamListingPrefix == "https://steamcommunity.com/market/listings/252490/"
SkinportSearchPrefix == "https://skinport.com/rust?search="
CSDealsSearchPrefix ==
    "https://cs.deals/new/market?game=rust&sort=newest&sort_desc=1&exact_match=0&name="

\* url = entry.get("url") or entry.get("link") or entry.get("href")
EntryUrl(entry) == Or(Or(entry.url, entry.link), entry.href)

\* one iteration of the loop over a price list; acc is the urls dict
scan_url_entry_with_csdeals(acc, entry) ==
    IF entry.t # "dict" THEN acc
    ELSE LET mtype == entry.marketType
             url == EntryUrl(entry)
         IN IF ~IsStr(url) \/ ~Truthy(url) THEN acc
            ELSE IF mtype \in SteamTags
                 THEN (IF acc.steam = None THEN [acc EXCEPT !.steam = url] ELSE acc)
            ELSE IF mtype = SkinportTag
                 THEN (IF acc.skinport = None THEN [acc EXCEPT !.skinport = url] ELSE acc)
            ELSE IF mtype = CSDealsTag
                 THEN (IF acc.csdeals = None THEN [acc EXCEPT !.csdeals = url] ELSE acc)
            ELSE acc

scan_url_entry(acc, entry) ==
    IF entry.t # "dict" THEN acc
    ELSE LET mtype == entry.marketType
             url == EntryUrl(entry)
         IN IF ~IsStr(url) \/ ~Truthy(url) THEN acc
            ELSE IF mtype \in SteamTags
                 THEN (IF acc.steam = None THEN [acc EXCEPT !.steam = url] ELSE acc)
            ELSE IF mtype = SkinportTag
                 THEN (IF acc.skinport = None THEN [acc EXCEPT !.skinport = url] ELSE acc)
            ELSE acc

RECURSIVE scan_urls(_, _)
scan_urls(acc, seq) ==
    IF seq = <<>> THEN acc ELSE scan_urls(scan_url_entry(acc, Head(seq)), Tail(seq))

\* for key in ("buyPrices", "sellPrices"): if not isinstance(seq, list): continue
ScanUrlsIfList(acc, x) == IF x.t = "list" THEN scan_urls(acc, x.l) ELSE acc

\* top_map
SteamTopFields == <<"steamMarketUrl", "steamMarketURL", "steamUrl">>
SkinportTopFields == <<"skinportUrl", "skinPortUrl">>

\* for field in candidates: if isinstance(val, str) and val: ...; break
RECURSIVE FirstTopField(_, _, _)
FirstTopField(d, fields, i) ==
    IF i > Len(fields) THEN None
    ELSE IF IsStr(d[fields[i]]) /\ Truthy(d[fields[i]]) THEN d[fields[i]]
    ELSE FirstTopField(d, fields, i + 1)

\* one iteration of `for market_key, candidates in top_map.items()`
top_level_fallback_overriding(current, d, fields) ==
    LET val == FirstTopField(d, fields, 1) IN
    IF val # None THEN val ELSE current

top_level_fallback(current, d, fields) ==
    IF current # None THEN current
    ELSE FirstTopField(d, fields, 1)

extract_market_urls(d) ==
    LET start == [steam |-> None, skinport |-> None, csdeals |-> None]
        s1 == ScanUrlsIfList(ScanUrlsIfList(start, d.buyPrices), d.sellPrices)
        s2 == [s1 EXCEPT !.steam = top_level_fallback(@, d, SteamTopFields),
                         !.skinport = top_level_fallback(@, d, SkinportTopFields)]
        name == d.name
    IN IF IsStr(name) /\ Truthy(name)
       THEN [steam |-> IF s2.steam = None
                       THEN Str(<<SteamListingPrefix>> \o quote(name.s)) ELSE s2.steam,
             skinport |-> IF s2.skinport = None
                          THEN Str(<<SkinportSearchPrefix>> \o quote(name.s)) ELSE s2.skinport,
             csdeals |-> Str(<<CSDealsSearchPrefix>> \o quote_plus(name.s))]
       ELSE s2

-----------------------------------------------------------------------------
(* Specification SpecUrls: extract_market_urls on an item detail document *)

MaxUrlEntries == 2     \* price entries in buyPrices and sellPrices together

\* URLs found in the source data; each names the key that holds it
SourceUrl(tag) == Str(<<tag>>)

\* entries of each venue without a URL and with one under "url"; a Steam entry under
\* the other Steam tag with only "link"; entries whose "url" is empty or no string, so
\* that "link" or "href" is consulted or the entry is skipped; an unknown venue; and a
\* list element that is no JSON object
UrlEntries ==
    { Entry(m, None, None, u, None, None) :
        m \in {"SteamCommunityMarket", SkinportTag, CSDealsTag},
        u \in {None, SourceUrl("url")} }
        \cup { Entry("SteamMarket", None, None, None, SourceUrl("link"), None),
               Entry(SkinportTag, None, None, Str(<<>>), None, SourceUrl("href")),
               Entry(SkinportTag, None, None, Num(7), SourceUrl("link"), None),
               Entry("TradeitGG", None, None, SourceUrl("url"), None, None),
               Other }

TopValues(tag) == {None, SourceUrl(tag)}

\* the item names: absent, empty, and names with characters that quote and quote_plus
\* encode
Names == {None, Str(<<>>), Str(<<"A">>), Str(<<"A", " ", "b", "/", "+">>)}

InitUrls ==
    /\ DocUnused /\ NormUnused /\ FetchUnused /\ EmbedUnused /\ BotUnused /\ SuggestUnused

\* a call extract_market_urls(d), d holding at most MaxUrlEntries price entries
ExtractMarketUrls ==
    /\ details = Unset
    /\ \E i \in 0..MaxUrlEntries, hasBuy \in BOOLEAN, hasSell \in BOOLEAN, name \in Names :
        \E j \in 0..(MaxUrlEntries - i) :
          \E b \in [1..i -> UrlEntries], s \in [1..j -> UrlEntries],
             t1 \in TopValues("steamMarketUrl") \cup {Str(<<>>)},
             t2 \in TopValues("steamMarketURL"), t3 \in TopValues("steamUrl"),
             t4 \in TopValues("skinportUrl"), t5 \in TopValues("skinPortUrl") :
            /\ ~hasBuy => i = 0
            /\ ~hasSell => j = 0
            /\ details' = Details(None, ListOrAbsent(hasBuy, b), ListOrAbsent(hasSell, s),
                                  name, t1, t2, t3, t4, t5)
            /\ urls' = extract_market_urls(details')
    /\ UNCHANGED <<bd, normVars, fetchVars, embedVars, botVars, suggestVars>>

NextUrls == ExtractMarketUrls

SpecUrls == InitUrls /\ [][NextUrls]_vars

\* buyPrices followed by sellPrices, in list order
EntriesInOrder(d) ==
    (IF d.buyPrices.t = "list" THEN d.buyPrices.l ELSE <<>>)
        \o (IF d.sellPrices.t = "list" THEN d.sellPrices.l ELSE <<>>)

\* every URL of the source data of d that belongs to CS.Deals or to any price entry
SourceUrlsOf(d) ==
    LET es == EntriesInOrder(d) IN
    UNION { {es[i].url, es[i].link, es[i].href} : i \in {k \in DOMAIN es : es[k].t = "dict"} }
        \ {None}

HasName(d) == d.name.t = "str" /\ d.name.s # <<>>

\* C9: whenever the document has a non-empty name, the CS.Deals URL is the search URL
\* synthesized from the name, whatever CS.Deals URL the price entries hold; a URL taken
\* from the source data is never returned for CS.Deals.
C9_CSDealsAlwaysSynthesized ==
    urls # Unset =>
        /\ HasName(details) =>
              /\ urls.csdeals.t = "str"
              /\ Head(urls.csdeals.s) = CSDealsSearchPrefix
              /\ Tail(urls.csdeals.s) = quote_plus(details.name.s)
        /\ urls.csdeals \notin SourceUrlsOf(details)

\* a named item whose first buy entry is a CS.Deals entry with a URL
C9_Witness ==
    /\ urls # Unset
    /\ details.name = Str(<<"A", " ", "b", "/", "+">>)
    /\ details.buyPrices.t = "list" /\ details.buyPrices.l # <<>>
    /\ details.buyPrices.l[1] = Entry(CSDealsTag, None, None, SourceUrl("url"), None, None)
    /\ urls.csdeals = Str(<<CSDealsSearchPrefix, "A", "+", "b", "%", "2", "F", "%", "2", "B">>)

\* the first truthy value among url, link, href, when it is a non-empty string
Carries(e) ==
    LET c == IF Truthy(e.url) THEN e.url ELSE IF Truthy(e.link) THEN e.link ELSE e.href
    IN IF c.t = "str" /\ c.s # <<>> THEN c ELSE None

\* the positions of the entries of a venue that carry a URL
Carriers(d, tags) ==
    LET es == EntriesInOrder(d) IN
    { i \in DOMAIN es : es[i].t = "dict" /\ es[i].marketType \in tags /\ Carries(es[i]) # None }

NonEmptyTop(d, fields) ==
    { i \in DOMAIN fields : d[fields[i]].t = "str" /\ d[fields[i]].s # <<>> }

Least(S) == CHOOSE x \in S : \A y \in S : x <= y

ResolvedIs(url, d, tags, fields, prefix) ==
    IF Carriers(d, tags) # {}
    THEN url = Carries(EntriesInOrder(d)[Least(Carriers(d, tags))])
    ELSE IF NonEmptyTop(d, fields) # {}
    THEN url = d[fields[Least(NonEmptyTop(d, fields))]]
    ELSE IF HasName(d)
    THEN url = Str(<<prefix>> \o quote(d.name.s))
    ELSE url = None

\* C10: for Steam and for Skinport the URL is (a) that of the first price entry of the
\* venue that carries a URL, scanning buyPrices then sellPrices in list order; otherwise
\* (b) the first non-empty top-level fallback field; otherwise (c) the URL constructed
\* from the item name; and it is absent only when none of the three yields a URL.
C10_ResolutionOrder ==
    urls # Unset =>
        /\ ResolvedIs(urls.steam, details, SteamTags, SteamTopFields, SteamListingPrefix)
        /\ ResolvedIs(urls.skinport, details, {SkinportTag}, SkinportTopFields,
                      SkinportSearchPrefix)

\* Steam: the second buy entry carries the first URL and wins over a sell entry, a
\* top-level field and the name; Skinport: no entry, so the second top-level field wins
\* over the name
C10_Witness ==
    /\ urls # Unset
    /\ HasName(details)
    /\ details.buyPrices.t = "list" /\ Len(details.buyPrices.l) = 2
    /\ details.buyPrices.l[1] = Entry("SteamCommunityMarket", None, None, None, None, None)
    /\ details.buyPrices.l[2] = Entry("SteamMarket", None, None, None, SourceUrl("link"), None)
    /\ details.steamMarketUrl = SourceUrl("steamMarketUrl")
    /\ details.skinportUrl = None
    /\ details.skinPortUrl = SourceUrl("skinPortUrl")
    /\ urls.steam = SourceUrl("link")
    /\ urls.skinport = SourceUrl("skinPortUrl")

-----------------------------------------------------------------------------
(* Strings of the fetch operations *)

\* code points of the characters timestamps are made of
CharCode(c) ==
    CASE c = "+" -> 43 [] c = "-" -> 45 [] c = "." -> 46
      [] c = "0" -> 48 [] c = "1" -> 49 [] c = "2" -> 50 [] c = "3" -> 51
      [] c = "4" -> 52 [] c = "5" -> 53 [] c = "6" -> 54 [] c = "7" -> 55
      [] c = "8" -> 56 [] c = "9" -> 57 [] c = ":" -> 58
      [] c = "T" -> 84 [] c = "Z" -> 90

\* a < b for Python strings: by code point, a proper prefix first
RECURSIVE StrLess(_, _)
StrLess(a, b) ==
    IF b = <<>> THEN FALSE
    ELSE IF a = <<>> THEN TRUE
    ELSE IF Head(a) = Head(b) THEN StrLess(Tail(a), Tail(b))
    ELSE CharCode(Head(a)) < CharCode(Head(b))

\* start.split("T", 1)[0]: what precedes the first "T", or the whole string
RECURSIVE BeforeFirstT(_)
BeforeFirstT(str) ==
    IF str = <<>> THEN <<>>
    ELSE IF Head(str) = "T" THEN <<>>
    ELSE <<Head(str)>> \o BeforeFirstT(Tail(str))

\* str.strip(): leading and trailing whitespace removed
Whitespace == {" ", "\t"}
RECURSIVE LStrip(_)
LStrip(str) ==
    IF str # <<>> /\ Head(str) \in Whitespace THEN LStrip(Tail(str)) ELSE str
RECURSIVE RStrip(_)
RStrip(str) ==
    IF str # <<>> /\ str[Len(str)] \in Whitespace
    THEN RStrip(SubSeq(str, 1, Len(str) - 1)) ELSE str
strip(str) == RStrip(LStrip(str))

\* str(x) of a string, and of None
PyStr(x) == IF x.t = "str" THEN x.s ELSE <<"N", "o", "n", "e">>

\* needle in text, both sequences of string fragments
Contains(text, needle) ==
    \E i \in 0..(Len(text) - Len(needle)) :
        \A k \in 1..Len(needle) : text[i + k] = needle[k]

-----------------------------------------------------------------------------
(* _http_get_json (scmm_client.py:95-127) *)

ApiBase == "https://rust.scmm.app/api"

\* what the remote end can answer to one GET:
\*   neterr     httpx.RequestError, str(exc) = text
\*   status     a non-2xx status (raise_for_status raises httpx.HTTPStatusError)
\*   exception  any other exception, of class cls, str(exc) = text
\*   badjson    a 2xx response whose body is no JSON
\*   json       a 2xx response with the JSON value body
NetErr(text) == [kind |-> "neterr", text |-> text]
Status(code) == [kind |-> "status", code |-> code]
OtherException(cls, text) == [kind |-> "exception", cls |-> cls, text |-> text]
BadJson == [kind |-> "badjson"]
Json(body) == [kind |-> "json", body |-> body]

Return(value) == [kind |-> "return", value |-> value]
Raise(exc, msg) == [kind |-> "raise", exc |-> exc, msg |-> msg]

http_get_json(url, resp) ==
    CASE resp.kind = "neterr" ->
            Raise("RuntimeError", <<"Network error talking to SCMM: ">> \o resp.text)
      [] resp.kind = "status" ->
            Raise("RuntimeError",
                  <<"SCMM responded with ", "HTTP ", resp.code, " for ">> \o url)
      [] resp.kind = "exception" ->
            Raise("RuntimeError",
                  <<"Unexpected error calling SCMM: ", resp.cls, ": ">> \o resp.text)
      [] resp.kind = "badjson" ->
            Raise("RuntimeError", <<"SCMM returned invalid JSON">>)
      [] resp.kind = "json" -> Return(resp.body)

-----------------------------------------------------------------------------
(* Store items *)

\* a raw store item (a JSON object of an "items" list)
RawItem(id, name, storePrice, price, usdPrice, finalPrice) ==
    [t |-> "dict", id |-> id, name |-> name, storePrice |-> storePrice, price |-> price,
     usdPrice |-> usdPrice, finalPrice |-> finalPrice, iconUrl |-> None, iconURL |-> None,
     imageUrl |-> None, workshopFileId |-> None, appId |-> None, itemType |-> None,
     itemCollection |-> None]

\* _normalize_store_item (scmm_client.py:151-194)
normalize_store_item(raw) ==
    [id |-> raw.id,
     name |-> Or(raw.name, Str(<<"U", "n", "k", "n", "o", "w", "n">>)),
     store_price |-> normalize_store_item_price(raw),
     icon_url |-> Or(Or(Or(raw.iconUrl, raw.iconURL), raw.imageUrl), None),
     workshop_file_id |-> raw.workshopFileId,
     app_id |-> raw.appId,
     item_type |-> Or(raw.itemType, None),
     collection |-> Or(raw.itemCollection, None)]

\* [_normalize_store_item(raw) for raw in raw_items if isinstance(raw, dict)]
RECURSIVE NormalizeDicts(_)
NormalizeDicts(raw_items) ==
    IF raw_items = <<>> THEN <<>>
    ELSE (IF Head(raw_items).t = "dict" THEN <<normalize_store_item(Head(raw_items))>>
          ELSE <<>>) \o NormalizeDicts(Tail(raw_items))

\* a JSON object with an "items" key (None: the key is absent)
ItemsObject(items) == [t |-> "dict", items |-> items]

\* fetch_store_current_raw (scmm_client.py:135-148), given the result of the GET
fetch_store_current_raw(r) ==
    IF r.kind = "raise" THEN r
    ELSE IF r.value.t # "dict" THEN Return([t |-> "dict", _root |-> r.value])
    ELSE Return(r.value)

\* fetch_store_list_raw (scmm_client.py:213-231), given the result of the GET
fetch_store_list_raw(r) ==
    IF r.kind = "raise" THEN r
    ELSE LET data == r.value IN
         IF data.t = "list" THEN Return(data.l)
         ELSE IF data.t = "dict" /\ data.items.t = "list" THEN Return(data.items.l)
         ELSE Return(<<>>)

\* fetch_store_items_by_id (scmm_client.py:234-261), given the result of the GET
fetch_store_items_by_id(r) ==
    IF r.kind = "raise" THEN r
    ELSE LET data == r.value IN
         IF data.t # "dict" THEN Return(<<>>)
         ELSE IF data.items.t # "list" THEN Return(<<>>)
         ELSE Return(NormalizeDicts(data.items.l))

-----------------------------------------------------------------------------
(* fetch_store_items_for_date (scmm_client.py:264-309) *)

\* an entry of the store list that is a JSON object
Store(start, id) == [t |-> "dict", start |-> start, id |-> id]

\* the loop over stores: the matches in list order, or the AttributeError that
\* store.get raises on the first element that is no JSON object
RECURSIVE CollectMatches(_, _, _)
CollectMatches(list, target_str, matches) ==
    IF list = <<>> THEN Return(matches)
    ELSE LET store == Head(list) IN
         IF store.t # "dict"
         THEN Raise("AttributeError", <<"object has no attribute 'get'">>)
         ELSE IF ~IsStr(store.start) THEN CollectMatches(Tail(list), target_str, matches)
         ELSE IF BeforeFirstT(store.start.s) = target_str
              THEN CollectMatches(Tail(list), target_str, Append(matches, store))
         ELSE CollectMatches(Tail(list), target_str, matches)

\* key=lambda s: str(s.get("start") or "")
StartKey(store) == IF Truthy(store.start) THEN PyStr(store.start) ELSE <<>>

\* sorted(matches, key=...): stable, ascending; by insertion from the left
RECURSIVE InsertByStart(_, _)
InsertByStart(sorted, store) ==
    IF sorted = <<>> THEN <<store>>
    ELSE IF StrLess(StartKey(store), StartKey(sorted[Len(sorted)]))
         THEN Append(InsertByStart(SubSeq(sorted, 1, Len(sorted) - 1), store),
                     sorted[Len(sorted)])
    ELSE Append(sorted, store)
RECURSIVE SortedByStart(_)
SortedByStart(matches) ==
    IF matches = <<>> THEN <<>>
    ELSE InsertByStart(SortedByStart(SubSeq(matches, 1, Len(matches) - 1)),
                       matches[Len(matches)])

\* chosen = sorted(matches, key=...)[-1]
ChooseEarliest(matches) == SortedByStart(matches)[1]

ChooseLatest(matches) == SortedByStart(matches)[Len(matches)]

StoreUrl(store_id) == <<ApiBase, "/store/">> \o store_id

\* The part of fetch_store_items_for_date up to its second GET (lines 284-308), given
\* the result of fetch_store_list_raw: how it ends there, or the store it goes on with.
for_date_select(listed, target_str) ==
    IF listed.kind = "raise" THEN [ends |-> TRUE, outcome |-> listed, chosen |-> Unset]
    ELSE IF listed.value = <<>>
         THEN [ends |-> TRUE, outcome |-> Return([items |-> <<>>, store_id |-> None]),
               chosen |-> Unset]
    ELSE LET m == CollectMatches(listed.value, target_str, <<>>) IN
         IF m.kind = "raise" THEN [ends |-> TRUE, outcome |-> m, chosen |-> Unset]
         ELSE IF m.value = <<>>
              THEN [ends |-> TRUE, outcome |-> Return([items |-> <<>>, store_id |-> None]),
                    chosen |-> Unset]
         ELSE LET c == ChooseLatest(m.value) IN
              IF ~Truthy(c.id)
              THEN [ends |-> TRUE, outcome |-> Return([items |-> <<>>, store_id |-> None]),
                    chosen |-> c]
              ELSE [ends |-> FALSE, outcome |-> Unset, chosen |-> c]

\* lines 308-309 without the identifier in the result
for_date_finish_without_id(fetched, store_id) ==
    IF fetched.kind = "raise" THEN fetched
    ELSE Return([items |-> fetched.value, store_id |-> None])

\* lines 308-309, given the result of fetch_store_items_by_id
for_date_finish(fetched, store_id) ==
    IF fetched.kind = "raise" THEN fetched
    ELSE Return([items |-> fetched.value, store_id |-> Str(PyStr(store_id))])

-----------------------------------------------------------------------------
(* fetch_item_details_for_store_item, fetch_item_details_by_name
   (scmm_client.py:317-332, 349-384) *)

ItemUrl(safe) == <<ApiBase, "/item/">> \o safe

\* clean = (name or "").strip()
clean_name_unstripped(name) == Or(name, Str(<<>>)).s

clean_name(name) == strip(Or(name, Str(<<>>)).s)

NotFoundNeedle == <<"HTTP ", "404">>

NotFoundMessage(clean) ==
    <<"No item found on SCMM", " matching '">> \o clean
        \o <<"'. Check the spelling or try a different name.">>

\* the except clause of fetch_item_details_by_name (lines 370-379)
by_name_reraise(r, clean) ==
    IF Contains(r.msg, NotFoundNeedle)
    THEN Raise("RuntimeError", NotFoundMessage(clean))
    ELSE r

\* lines 381-384, and 330-332 of fetch_item_details_for_store_item
details_or_error(r) ==
    IF r.value.t # "dict"
    THEN Raise("RuntimeError", <<"SCMM item details response was not an object">>)
    ELSE r

-----------------------------------------------------------------------------
(* Specification SpecFetch: one invocation of a fetch operation *)

MaxStores == 2      \* entries of the store list
MaxItems == 2       \* entries of the "items" list of a store
MaxNameLen == 2     \* characters of the name given to fetch_item_details_by_name

\* the text of a transport error: a timeout, and the transport's report of a malformed
\* status line, which quotes the bytes the remote end sent
NetTexts ==
    { <<"timed out">>,
      <<"illegal status line: bytearray(b'", "HTTP ", "404", " Not Found')">> }
StatusCodes == {"404", "500"}

ErrorResponses ==
    { NetErr(text) : text \in NetTexts } \cup { Status(c) : c \in StatusCodes }
        \cup { OtherException("InvalidURL", <<"URL too long">>), BadJson }

\* calendar dates as date.isoformat() gives them, shortened to the day
Day6 == <<"0", "6">>
Day7 == <<"0", "7">>
TargetDates == {Day6, Day7}

\* "start" of a store: timestamps of two days, a date without a time, and no string
Starts ==
    { Str(Day6 \o <<"T", "1", "0">>), Str(Day6 \o <<"T", "1", "8">>),
      Str(Day7 \o <<"T", "1", "0">>), Str(Day6), None }
StoreIds == {None, Str(<<"X">>), Str(<<"Y">>)}
StoreElems ==
    { Store(st, id) : st \in Starts, id \in StoreIds }
        \cup { Store(Str(Day6 \o <<"T", "1", "8">>), Str(<<>>)), Other }

RawElems ==
    { RawItem(Num(1), Str(<<"A">>), Num(60 * Unit), None, None, None),
      RawItem(None, None, None, Num(2 * Unit), None, None),
      Other }

CurrentBodies == { ItemsObject(List(<<>>)), ItemsObject(None), List(<<>>), Other }
ItemBodies ==
    { Details(Num(2 * Unit), None, None, Str(<<"A">>), None, None, None, None, None),
      List(<<>>), Other }

StoreItems ==
    { normalize_store_item(RawItem(Num(1), nm, None, None, None, None)) :
        nm \in {Str(<<"A", " ", "b">>), None} }
        \cup { [normalize_store_item(RawItem(Num(1), None, None, None, None, None))
                   EXCEPT !.name = Str(<<>>)] }

NameArgs == {None} \cup { Str(n) : n \in UNION { [1..k -> Whitespace \cup {"A"}] : k \in 0..MaxNameLen } }

InitFetch == NormUnused /\ DocUnused /\ FetchUnused /\ EmbedUnused /\ BotUnused /\ SuggestUnused

\* client.get(url), repeated once
IssueTwice(url) == requests' = Append(Append(requests, url), url)

Issue(url) == requests' = Append(requests, url)
Answered(resp) == responses' = Append(responses, resp)
LastUrl == requests[Len(requests)]

\* ---- fetch_store_current_raw (scmm_client.py:135-148)
CallFetchStoreCurrentRaw ==
    /\ pc = "idle"
    /\ op' = "fetch_store_current_raw" /\ arg' = None
    /\ Issue(<<ApiBase, "/store/current">>)
    /\ pc' = "http1"
    /\ UNCHANGED <<responses, stores, chosen, outcome, normVars, docVars, embedVars, botVars, suggestVars>>

RespondStoreCurrentRaw ==
    /\ pc = "http1" /\ op = "fetch_store_current_raw"
    /\ \E resp \in ErrorResponses \cup { Json(b) : b \in CurrentBodies } :
          /\ Answered(resp)
          /\ outcome' = fetch_store_current_raw(http_get_json(LastUrl, resp))
    /\ pc' = "done"
    /\ UNCHANGED <<op, arg, requests, stores, chosen, normVars, docVars, embedVars, botVars, suggestVars>>

\* ---- fetch_store_list_raw (scmm_client.py:213-231)
CallFetchStoreListRaw ==
    /\ pc = "idle"
    /\ op' = "fetch_store_list_raw" /\ arg' = None
    /\ Issue(<<ApiBase, "/store">>)
    /\ pc' = "http1"
    /\ UNCHANGED <<responses, stores, chosen, outcome, normVars, docVars, embedVars, botVars, suggestVars>>

RespondStoreListRaw ==
    /\ pc = "http1" /\ op = "fetch_store_list_raw"
    /\ \E resp \in ErrorResponses \cup { Json(List(l)) : l \in [1..1 -> StoreElems] }
                     \cup { Json(ItemsObject(List(<<Other>>))), Json(ItemsObject(None)),
                            Json(Other) } :
          /\ Answered(resp)
          /\ outcome' = fetch_store_list_raw(http_get_json(LastUrl, resp))
    /\ pc' = "done"
    /\ UNCHANGED <<op, arg, requests, stores, chosen, normVars, docVars, embedVars, botVars, suggestVars>>

\* ---- fetch_store_items_by_id (scmm_client.py:234-261)
StoreItemsBodies ==
    { ItemsObject(List(l)) : l \in UNION { [1..n -> RawElems] : n \in 0..MaxItems } }
        \cup { ItemsObject(None), ItemsObject(Other), List(<<>>), Other }
StoreItemsAnswers == ErrorResponses \cup { Json(b) : b \in StoreItemsBodies }

CallFetchStoreItemsById ==
    /\ pc = "idle"
    /\ \E store_id \in {<<"X">>, <<"Y">>} :
          /\ op' = "fetch_store_items_by_id" /\ arg' = Str(store_id)
          /\ Issue(StoreUrl(store_id))
    /\ pc' = "http1"
    /\ UNCHANGED <<responses, stores, chosen, outcome, normVars, docVars, embedVars, botVars, suggestVars>>

RespondStoreItemsById ==
    /\ pc = "http1" /\ op = "fetch_store_items_by_id"
    /\ \E resp \in StoreItemsAnswers :
          /\ Answered(resp)
          /\ outcome' = fetch_store_items_by_id(http_get_json(LastUrl, resp))
    /\ pc' = "done"
    /\ UNCHANGED <<op, arg, requests, stores, chosen, normVars, docVars, embedVars, botVars, suggestVars>>

\* ---- fetch_store_items_for_date (scmm_client.py:264-309)
CallFetchStoreItemsForDate ==
    /\ pc = "idle"
    /\ \E target_date \in TargetDates :
          /\ op' = "fetch_store_items_for_date" /\ arg' = Str(target_date)
    /\ Issue(<<ApiBase, "/store">>)
    /\ pc' = "http1"
    /\ UNCHANGED <<responses, stores, chosen, outcome, normVars, docVars, embedVars, botVars, suggestVars>>

\* lines 284-308: the store list arrives; the operation ends or asks for the chosen store
ForDateListed(resp) ==
    LET listed == fetch_store_list_raw(http_get_json(LastUrl, resp))
        sel == for_date_select(listed, arg.s)
    IN /\ Answered(resp)
       /\ stores' = IF listed.kind = "return" THEN List(listed.value) ELSE Unset
       /\ chosen' = sel.chosen
       /\ IF sel.ends
          THEN outcome' = sel.outcome /\ pc' = "done" /\ UNCHANGED requests
          ELSE /\ Issue(StoreUrl(PyStr(sel.chosen.id)))
               /\ pc' = "http2"
               /\ UNCHANGED outcome

RespondStoreListForDate ==
    /\ pc = "http1" /\ op = "fetch_store_items_for_date"
    /\ \/ \E resp \in ErrorResponses
                        \cup { Json(ItemsObject(List(l))) : l \in [1..1 -> StoreElems] }
                        \cup { Json(ItemsObject(None)), Json(Other) } :
             ForDateListed(resp)
       \/ \E n \in 0..MaxStores : \E l \in [1..n -> StoreElems] :
             ForDateListed(Json(List(l)))
    /\ UNCHANGED <<op, arg, normVars, docVars, embedVars, botVars, suggestVars>>

\* lines 308-309: the items of the chosen store arrive
RespondStoreItemsForDate ==
    /\ pc = "http2" /\ op = "fetch_store_items_for_date"
    /\ \E resp \in StoreItemsAnswers :
          /\ Answered(resp)
          /\ outcome' = for_date_finish(
                            fetch_store_items_by_id(http_get_json(LastUrl, resp)), chosen.id)
    /\ pc' = "done"
    /\ UNCHANGED <<op, arg, requests, stores, chosen, normVars, docVars, embedVars, botVars, suggestVars>>

\* ---- fetch_item_details_for_store_item (scmm_client.py:317-332)
ItemAnswers == ErrorResponses \cup { Json(b) : b \in ItemBodies }

CallFetchItemDetailsForStoreItem ==
    /\ pc = "idle"
    /\ \E item \in StoreItems :
          /\ op' = "fetch_item_details_for_store_item" /\ arg' = item
          /\ IF ~Truthy(item.name)
             THEN /\ outcome' = Raise("RuntimeError", <<"Item has no name for detail lookup">>)
                  /\ pc' = "done"
                  /\ UNCHANGED requests
             ELSE /\ Issue(ItemUrl(quote(item.name.s)))
                  /\ pc' = "http1"
                  /\ UNCHANGED outcome
    /\ UNCHANGED <<responses, stores, chosen, normVars, docVars, embedVars, botVars, suggestVars>>

RespondItemDetailsForStoreItem ==
    /\ pc = "http1" /\ op = "fetch_item_details_for_store_item"
    /\ \E resp \in ItemAnswers :
          /\ Answered(resp)
          /\ LET r == http_get_json(LastUrl, resp) IN
             outcome' = IF r.kind = "raise" THEN r ELSE details_or_error(r)
    /\ pc' = "done"
    /\ UNCHANGED <<op, arg, requests, stores, chosen, normVars, docVars, embedVars, botVars, suggestVars>>

\* ---- fetch_item_details_by_name (scmm_client.py:349-384)
CallFetchItemDetailsByName ==
    /\ pc = "idle"
    /\ \E name \in NameArgs :
          /\ op' = "fetch_item_details_by_name" /\ arg' = name
          /\ LET clean == clean_name(name) IN
             IF clean = <<>>
             THEN /\ outcome' = Raise("RuntimeError", <<"Item name is required">>)
                  /\ pc' = "done"
                  /\ UNCHANGED requests
             ELSE /\ Issue(ItemUrl(quote(clean)))
                  /\ pc' = "http1"
                  /\ UNCHANGED outcome
    /\ UNCHANGED <<responses, stores, chosen, normVars, docVars, embedVars, botVars, suggestVars>>

RespondItemDetailsByName ==
    /\ pc = "http1" /\ op = "fetch_item_details_by_name"
    /\ \E resp \in ItemAnswers :
          /\ Answered(resp)
          /\ LET r == http_get_json(LastUrl, resp) IN
             outcome' = IF r.kind = "raise" THEN by_name_reraise(r, clean_name(arg))
                        ELSE details_or_error(r)
    /\ pc' = "done"
    /\ UNCHANGED <<op, arg, requests, stores, chosen, normVars, docVars, embedVars, botVars, suggestVars>>

NextFetch ==
    \/ CallFetchStoreCurrentRaw \/ RespondStoreCurrentRaw
    \/ CallFetchStoreListRaw \/ RespondStoreListRaw
    \/ CallFetchStoreItemsById \/ RespondStoreItemsById
    \/ CallFetchStoreItemsForDate \/ RespondStoreListForDate \/ RespondStoreItemsForDate
    \/ CallFetchItemDetailsForStoreItem \/ RespondItemDetailsForStoreItem
    \/ CallFetchItemDetailsByName \/ RespondItemDetailsByName

SpecFetch == InitFetch /\ [][NextFetch]_vars

-----------------------------------------------------------------------------
(* Claims about the fetch operations *)

ForDate == pc # "idle" /\ op = "fetch_store_items_for_date"
ByName == pc # "idle" /\ op = "fetch_item_details_by_name"

\* the stores of the store list whose start has the requested date as its date part:
\* the start is a string and what precedes its first "T" is the date
StartsOn(store, date) ==
    /\ store.t = "dict"
    /\ store.start.t = "str"
    /\ \E k \in 0..Len(store.start.s) :
          /\ SubSeq(store.start.s, 1, k) = date
          /\ \A i \in 1..k : store.start.s[i] # "T"
          /\ k < Len(store.start.s) => store.start.s[k + 1] = "T"
MatchingStores == { i \in DOMAIN stores.l : StartsOn(stores.l[i], arg.s) }

\* a <= b for strings, by code point
RECURSIVE StrLeq(_, _)
StrLeq(a, b) ==
    \/ a = <<>>
    \/ /\ b # <<>>
       /\ \/ CharCode(a[1]) < CharCode(b[1])
          \/ a[1] = b[1] /\ StrLeq(Tail(a), Tail(b))

\* C4: among the stores of the store list whose start timestamp has the requested date
\* as its date part, fetch_store_items_for_date chooses the one with the greatest start
\* timestamp (the latest start that day), whatever their order in the list.
C4_ChoosesLatestStart ==
    (ForDate /\ chosen # Unset) =>
        /\ \E i \in MatchingStores : stores.l[i] = chosen
        /\ \A i \in MatchingStores : StrLeq(stores.l[i].start.s, chosen.start.s)

\* the store that starts at 18 comes first in the list, the one at 10 second: the first
\* is chosen and its items are asked for
C4_Witness ==
    /\ ForDate /\ pc = "http2"
    /\ arg = Str(Day6)
    /\ stores = List(<<Store(Str(Day6 \o <<"T", "1", "8">>), Str(<<"X">>)),
                       Store(Str(Day6 \o <<"T", "1", "0">>), Str(<<"Y">>))>>)
    /\ chosen = Store(Str(Day6 \o <<"T", "1", "8">>), Str(<<"X">>))
    /\ requests[2] = <<ApiBase, "/store/", "X">>

Returned == pc = "done" /\ outcome.kind = "return"
NoStore == [items |-> <<>>, store_id |-> None]
HasId(store) == store.id.t = "str" /\ store.id.s # <<>>

\* the normalized item list of the store the second GET answered with
ItemsOfChosenStore ==
    LET body == responses[2].body IN
    IF body.t = "dict" /\ body.items.t = "list" THEN NormalizeDicts(body.items.l) ELSE <<>>

\* C5 as stated: the item list of the chosen store and its identifier whenever a store
\* starts on the requested date, and the empty list with no identifier if no store
\* matches that date and in no other case.
C5_AsStated ==
    (ForDate /\ Returned) =>
        /\ (stores.l # <<>> /\ MatchingStores # {}) =>
              /\ Len(responses) = 2
              /\ outcome.value.store_id = chosen.id
              /\ outcome.value.items = ItemsOfChosenStore
        /\ outcome.value = NoStore => (stores.l = <<>> \/ MatchingStores = {})

\* C5 amended: when fetch_store_items_for_date returns, it returns the normalized item
\* list of the chosen store with that store's identifier whenever a store of the list
\* starts on the requested date and the chosen store has a non-empty identifier; it
\* returns the empty list with no identifier if no store matches the date or the chosen
\* store has no identifier, and in no other case.
C5_ItemsAndIdOrNothing ==
    (ForDate /\ Returned) =>
        IF stores.l # <<>> /\ MatchingStores # {} /\ HasId(chosen)
        THEN /\ Len(requests) = 2
             /\ requests[2] = StoreUrl(chosen.id.s)
             /\ outcome.value.store_id = chosen.id
             /\ outcome.value.items = ItemsOfChosenStore
        ELSE /\ Len(requests) = 1
             /\ outcome.value = NoStore

\* the chosen store has identifier X and its two items come back normalized
C5_Witness ==
    /\ ForDate /\ Returned
    /\ MatchingStores # {}
    /\ chosen.id = Str(<<"X">>)
    /\ outcome.value.store_id = Str(<<"X">>)
    /\ Len(outcome.value.items) = 2
    /\ outcome.value.items[1].store_price = Num(6000)

\* C6: every failure of a fetch operation reaches the caller as the one error kind
\* RemoteError (RuntimeError in the code), carrying a message; no fetch operation ends
\* with any other kind of error for any response the remote service can return.
C6_SingleErrorKind ==
    (pc = "done" /\ outcome.kind = "raise") =>
        /\ outcome.exc = "RuntimeError"
        /\ outcome.msg # <<>>

\* the name is empty or holds only whitespace
Blank(name) == \A i \in DOMAIN name : name[i] \in Whitespace

\* C7: fetch_item_details_by_name with an empty or whitespace-only name fails with the
\* 'Item name is required' error before any network call: no HTTP request is issued.
C7_BlankNameNoRequest ==
    (ByName /\ (arg = None \/ (arg.t = "str" /\ Blank(arg.s)))) =>
        /\ requests = <<>>
        /\ pc = "done"
        /\ outcome = Raise("RuntimeError", <<"Item name is required">>)

\* the name is a space followed by a tab
C7_Witness ==
    /\ ByName /\ arg = Str(<<" ", "\t">>)
    /\ pc = "done" /\ requests = <<>> /\ outcome.kind = "raise"

IsNotFoundMessage(msg) == Head(msg) = "No item found on SCMM"

\* C8: fetch_item_details_by_name fails with the not-found message when the remote end
\* answers HTTP 404, and with the original message, unchanged, for any other failure;
\* the not-found message is produced for a 404 response and for no other failure.
C8_NotFoundOnlyFor404 ==
    (ByName /\ pc = "done" /\ outcome.kind = "raise" /\ responses # <<>>) =>
        IF responses[1] = Status("404")
        THEN outcome.msg = NotFoundMessage(strip(arg.s))
        ELSE /\ ~IsNotFoundMessage(outcome.msg)
             /\ responses[1].kind # "json" =>
                    outcome = http_get_json(requests[1], responses[1])

-----------------------------------------------------------------------------
(* Text the renderers of embeds.py build *)

\* A text is a sequence of fragments; "\n" is a fragment of its own, and a number is
\* rendered digit by digit.

\* {}: a JSON object without keys. A Details record stands for an object that has keys
\* (a key the code reads and the object lacks shows as None).
EmptyDict == [t |-> "emptydict"]

Digit(k) == <<"0", "1", "2", "3", "4", "5", "6", "7", "8", "9">>[k + 1]
\* the decimal digits of a natural number
RECURSIVE Digits(_)
Digits(k) == IF k < 10 THEN <<Digit(k)>> ELSE Digits(k \div 10) \o <<Digit(k % 10)>>

\* p / q (p >= 0, q > 0) rounded to the nearest integer, a tie to the even one
RoundHalfEven(p, q) ==
    LET f == p \div q
        r == 2 * (p % q)
    IN IF r > q \/ (r = q /\ f % 2 = 1) THEN f + 1 ELSE f

\* f"{x:.2f}" of a price x (x.n in ten-thousandths)
Fmt2(x) ==
    LET c == RoundHalfEven(Abs(x.n) * Hundred, Unit) IN
    (IF x.n < 0 THEN <<"-">> ELSE <<>>)
        \o Digits(c \div Hundred) \o <<".", Digit((c % Hundred) \div 10), Digit(c % 10)>>

\* f"{abs(pct):.1f}" of a percentage held as the fraction pct.p / pct.q
FmtAbs1(pct) ==
    LET c == RoundHalfEven(Abs(pct.p) * 10, pct.q) IN
    Digits(c \div 10) \o <<".", Digit(c % 10)>>

\* "\n".join(lines)
RECURSIVE JoinLines(_)
JoinLines(lines) ==
    IF lines = <<>> THEN <<>>
    ELSE IF Len(lines) = 1 THEN lines[1]
    ELSE lines[1] \o <<"\n">> \o JoinLines(Tail(lines))

-----------------------------------------------------------------------------
(* _render_market_lines (embeds.py:28-106) *)

NoDetailsBlock == <<"**Store:** Unknown", "\n", "**Steam Market:** No data">>

\* lines 59-62, with the sentinel replaced by a price of zero
store_line_zero(store) ==
    <<"**Store:** ", "$">> \o Fmt2(IF store # None THEN store ELSE Num(0))

\* lines 59-62
store_line(store) ==
    IF store # None THEN <<"**Store:** ", "$">> \o Fmt2(store)
    ELSE <<"**Store:** Unknown">>

\* sign = "+" if pct >= 0 else "-"; emoji likewise; f"({emoji} {sign}{abs(pct):.1f}% vs ...)"
Delta(pct, base) ==
    <<" ", "(", IF pct.p >= 0 THEN "green" ELSE "red", " ",
      IF pct.p >= 0 THEN "+" ELSE "-">> \o FmtAbs1(pct) \o <<"% vs ", base, ")">>

\* lines 65-76, 80-91 and 93-104: the line of a venue
venue_line(label, price, pct, base, absent) ==
    IF price # None
    THEN IF pct # None THEN <<label, "$">> \o Fmt2(price) \o Delta(pct, base)
         ELSE <<label, "$">> \o Fmt2(price)
    ELSE <<absent>>

render_market_lines(d, flag) ==
    IF ~Truthy(d) THEN NoDetailsBlock
    ELSE LET b == get_market_breakdown(d)
             always ==
                 << store_line(b.store_price),
                    venue_line("**Steam Market:** ", b.steam_price, b.steam_vs_store_pct,
                               "store", "**Steam Market:** No data") >>
             third ==
                 << venue_line("**Skinport:** ", b.skinport_price, b.skinport_vs_steam_pct,
                               "Steam", "**Skinport:** No listings"),
                    venue_line("**CS.Deals:** ", b.csdeals_price, b.csdeals_vs_steam_pct,
                               "Steam", "**CS.Deals:** No listings") >>
         IN JoinLines(IF flag THEN always \o third ELSE always)

-----------------------------------------------------------------------------
(* Specification SpecRender: _render_market_lines on an item detail document *)

\* no document: None (the detail fetch failed) and {}
NoDetails == {None, EmptyDict}

InitRender ==
    /\ DocUnused /\ NormUnused /\ FetchUnused /\ EmbedUnused /\ BotUnused /\ SuggestUnused

\* _render_market_lines(d, flag), d an object holding at most MaxEntries price entries
RenderMarketLines ==
    /\ details = Unset
    /\ \E sp \in StorePrices, i \in 0..MaxEntries, hasBuy \in BOOLEAN, hasSell \in BOOLEAN,
          flag \in BOOLEAN :
        \E j \in 0..(MaxEntries - i) :
          \E b \in [1..i -> PriceEntries], s \in [1..j -> PriceEntries] :
            /\ ~hasBuy => i = 0
            /\ ~hasSell => j = 0
            /\ details' = Details(sp, ListOrAbsent(hasBuy, b), ListOrAbsent(hasSell, s),
                                  None, None, None, None, None, None)
            /\ include_third_party' = flag
            /\ bd' = get_market_breakdown(details')
            /\ price_block' = render_market_lines(details', flag)
    /\ UNCHANGED <<urls, stats_block, view, normVars, fetchVars, botVars, suggestVars>>

\* _render_market_lines(d, flag) without a document
RenderWithoutDetails ==
    /\ details = Unset
    /\ \E d \in NoDetails, flag \in BOOLEAN :
          /\ details' = d
          /\ include_third_party' = flag
          /\ price_block' = render_market_lines(d, flag)
    /\ UNCHANGED <<bd, urls, stats_block, view, normVars, fetchVars, botVars, suggestVars>>

NextRender == RenderMarketLines \/ RenderWithoutDetails

SpecRender == InitRender /\ [][NextRender]_vars

\* text.split("\n"): the lines of a text
RECURSIVE SplitLines(_, _)
SplitLines(text, line) ==
    IF text = <<>> THEN <<line>>
    ELSE IF Head(text) = "\n" THEN <<line>> \o SplitLines(Tail(text), <<>>)
    ELSE SplitLines(Tail(text), Append(line, Head(text)))
LinesOf(text) == SplitLines(text, <<>>)

Rendered == price_block # Unset
IsStoreLine(line) == Head(line) \in {"**Store:** ", "**Store:** Unknown"}
IsSteamLine(line) == Head(line) \in {"**Steam Market:** ", "**Steam Market:** No data"}
IsSkinportLine(line) == Head(line) \in {"**Skinport:** ", "**Skinport:** No listings"}
IsCSDealsLine(line) == Head(line) \in {"**CS.Deals:** ", "**CS.Deals:** No listings"}

\* the document has no price of the venue: it is no document, or no entry of the venue
\* is available with a numeric price
VenueAbsent(d, tags) == ~Truthy(d) \/ AvailablePrices(d, tags) = {}

\* C11: for every input document the output of _render_market_lines has a store-price
\* line followed by a Steam line; with include_third_party true it has, after them, a
\* Skinport line and then a CS.Deals line, each the 'No listings' sentinel when the
\* venue's price is absent (four lines in all); with the flag false it has exactly the
\* two lines.
C11_LinesOfPriceBlock ==
    Rendered =>
        LET L == LinesOf(price_block) IN
        /\ Len(L) = IF include_third_party THEN 4 ELSE 2
        /\ IsStoreLine(L[1]) /\ IsSteamLine(L[2])
        /\ include_third_party =>
              /\ IsSkinportLine(L[3]) /\ IsCSDealsLine(L[4])
              /\ VenueAbsent(details, {SkinportTag}) => L[3] = <<"**Skinport:** No listings">>
              /\ VenueAbsent(details, {CSDealsTag}) => L[4] = <<"**CS.Deals:** No listings">>

\* the document has neither a store price nor a Steam price
NoStoreNoSteam(d) ==
    \/ ~Truthy(d)
    \/ /\ d.storePrice.t \notin {"num", "bool"}
       /\ AvailablePrices(d, SteamTags) = {}

\* C12: for any item detail document whose Market Breakdown has no store price and no
\* Steam price, _render_market_lines with the inclusion flag false produces exactly the
\* two lines '**Store:** Unknown' and '**Steam Market:** No data', and no third-party line.
C12_AllAbsentTwoLines ==
    (Rendered /\ ~include_third_party /\ NoStoreNoSteam(details)) =>
        LinesOf(price_block) = << <<"**Store:** Unknown">>, <<"**Steam Market:** No data">> >>

\* a document that has a Skinport price and a CS.Deals price, but no store price and no
\* Steam price, rendered with the flag false
C12_Witness ==
    /\ Rendered /\ include_third_party = FALSE
    /\ Truthy(details) /\ NoStoreNoSteam(details)
    /\ bd.skinport_price = Num(40 * Unit) /\ bd.csdeals_price = Num(0)
    /\ price_block = NoDetailsBlock

-----------------------------------------------------------------------------
(* _build_stats_block (embeds.py:180-261) *)

\* A number without a fraction stands for a JSON integer (a Python int), one with a
\* fraction for a Python float.
\* isinstance(x, int)
IsInt(x) == x.t = "bool" \/ (x.t = "num" /\ x.n % Unit = 0)
\* int(x) of a number: the fraction is cut off
PyInt(x) == LET n == Float(x) IN IF n < 0 THEN 0 - ((0 - n) \div Unit) ELSE n \div Unit

\* f"{k:,}" of an integer: digits in groups of three
RECURSIVE Grouped(_)
Grouped(k) ==
    IF k < 1000 THEN Digits(k)
    ELSE Grouped(k \div 1000)
            \o <<",", Digit((k % 1000) \div 100), Digit((k % 100) \div 10), Digit(k % 10)>>
FmtGrouped(k) == (IF k < 0 THEN <<"-">> ELSE <<>>) \o Grouped(Abs(k))
\* f"{k}" of an integer
FmtInt(k) == (IF k < 0 THEN <<"-">> ELSE <<>>) \o Digits(Abs(k))

\* what the block reads beside storePrice
StatsFields(timeAccepted, supplyTotalEstimated, supplyTotalOwnersEstimated, subscriptionsCurrent, subscriptionsLifetime, votesUp, votesDown, favouritedCurrent, favouritedLifetime, views, breaksIntoComponents) ==
    [timeAccepted |-> timeAccepted, supplyTotalEstimated |-> supplyTotalEstimated,
     supplyTotalOwnersEstimated |-> supplyTotalOwnersEstimated,
     subscriptionsCurrent |-> subscriptionsCurrent,
     subscriptionsLifetime |-> subscriptionsLifetime,
     votesUp |-> votesUp, votesDown |-> votesDown,
     favouritedCurrent |-> favouritedCurrent, favouritedLifetime |-> favouritedLifetime,
     views |-> views, breaksIntoComponents |-> breaksIntoComponents]

\* a non-empty JSON object as the value of breaksIntoComponents: its members in order
Components(members) == [t |-> "object", members |-> members]
Member(k, val) == [k |-> k, val |-> val]

\* a text, as opposed to None
Text(frags) == [t |-> "text", frags |-> frags]

\* str.strip() of a line that can only end in blanks
RECURSIVE StripLine(_)
StripLine(line) ==
    IF line # <<>> /\ line[Len(line)] = " " THEN StripLine(SubSeq(line, 1, Len(line) - 1))
    ELSE line

\* lines 199-216: release date and store price
release_line(d) ==
    LET released == d.timeAccepted
        store_price == stats_store_price(d)
        date_txt == IF IsStr(released) /\ Truthy(released)
                    THEN BeforeFirstT(released.s) ELSE <<>>
        price_part == IF store_price # None
                      THEN <<"for **$">> \o Fmt2(store_price) \o <<"**">> ELSE <<>>
    IN IF date_txt # <<>>
       THEN << StripLine(<<"[cart] Released on **">> \o date_txt \o <<"**", " ">>
                            \o price_part) >>
       ELSE IF store_price # None
       THEN << <<"[cart] Store price ">> \o price_part >>
       ELSE <<>>

\* lines 219-224, 227-229, 241-243: a count with a fallback key
count_line(label, first, second) ==
    LET x == Or(first, second) IN
    IF IsNumber(x) THEN << <<label>> \o FmtGrouped(PyInt(x)) \o <<"**">> >> ELSE <<>>

\* lines 232-238
votes_line(d) ==
    IF IsInt(d.votesUp) /\ IsInt(d.votesDown)
    THEN LET up == PyInt(d.votesUp)
             total_votes == up + PyInt(d.votesDown)
         IN IF total_votes > 0
            THEN << <<"[thumb] Votes: **">> \o FmtGrouped(total_votes) \o <<"** (">>
                      \o (IF up < 0 THEN <<"-">> ELSE <<>>)
                      \o Digits(RoundHalfEven(Abs(up) * 100, total_votes))
                      \o <<"% positive)">> >>
            ELSE <<>>
    ELSE <<>>

\* lines 246-248
views_line(d) ==
    IF IsNumber(d.views)
    THEN << <<"[eyes] Workshop views: **">> \o FmtGrouped(PyInt(d.views)) \o <<"**">> >>
    ELSE <<>>

\* lines 253-257: parts, joined by ", "
RECURSIVE component_parts(_, _)
component_parts(members, first) ==
    IF members = <<>> THEN <<>>
    ELSE LET m == Head(members) IN
         IF IsNumber(m.val)
         THEN (IF first THEN <<>> ELSE <<", ">>) \o FmtInt(PyInt(m.val)) \o <<"x ", m.k>>
                 \o component_parts(Tail(members), FALSE)
         ELSE component_parts(Tail(members), first)

\* lines 251-259
components_line(d) ==
    LET components == d.breaksIntoComponents IN
    IF components.t = "object" /\ components.members # <<>>
    THEN LET parts == component_parts(components.members, TRUE) IN
         IF parts # <<>> THEN << <<"[axe] Breaks into ">> \o parts >> ELSE <<>>
    ELSE <<>>

\* A JSON number too large for a float, such as 1e400: json reads it as float("inf"),
\* which is a float to isinstance and which int() refuses with OverflowError.
Infinity == [t |-> "inf"]
Raised(exc) == [t |-> "raise", exc |-> exc]

\* int(...) is applied to float("inf") at lines 224, 229, 243, 248 or 254
int_overflows(d) ==
    \/ Or(d.supplyTotalEstimated, d.supplyTotalOwnersEstimated) = Infinity
    \/ Or(d.subscriptionsCurrent, d.subscriptionsLifetime) = Infinity
    \/ Or(d.favouritedCurrent, d.favouritedLifetime) = Infinity
    \/ d.views = Infinity
    \/ /\ d.breaksIntoComponents.t = "object"
       /\ \E i \in DOMAIN d.breaksIntoComponents.members :
             d.breaksIntoComponents.members[i].val = Infinity

build_stats_block(d) ==
    IF ~Truthy(d) THEN None
    ELSE IF int_overflows(d) THEN Raised("OverflowError")
    ELSE LET lines ==
                 release_line(d)
                 \o count_line("[box] Estimated supply: **", d.supplyTotalEstimated,
                               d.supplyTotalOwnersEstimated)
                 \o count_line("[people] Workshop subscribers: **", d.subscriptionsCurrent,
                               d.subscriptionsLifetime)
                 \o votes_line(d)
                 \o count_line("[star] Favourited: **", d.favouritedCurrent,
                               d.favouritedLifetime)
                 \o views_line(d)
                 \o components_line(d)
         IN IF lines # <<>> THEN Text(JoinLines(lines)) ELSE None

-----------------------------------------------------------------------------
(* Specification SpecStats: _build_stats_block on an item detail document *)

MaxComponents == 1      \* members of breaksIntoComponents

\* a timestamp, a string without a date before its "T", and a missing key
ReleaseValues == {None, Str(Day6 \o <<"T", "1", "0">>), Str(<<"T", "1", "0">>)}
\* a key and its fallback key: both missing, a count, a value that is no number before
\* a count, a count in the fallback only (1500.5)
SupplyValues ==
    { <<None, None>>, <<Num(12345 * Unit), None>>,
      <<Str(<<"A">>), Num(1500 * Unit + Unit \div 2)>>,
      <<None, Num(1500 * Unit + Unit \div 2)>> }
\* ... and a zero before a count
SubscriberValues ==
    { <<None, None>>, <<Num(0), Num(1500 * Unit + Unit \div 2)>>, <<Num(0), None>> }
FavouriteValues ==
    { <<None, None>>, <<Str(<<"A">>), Num(1500 * Unit + Unit \div 2)>>,
      <<None, Num(1500 * Unit + Unit \div 2)>> }
\* votesUp and votesDown
VoteValues ==
    { <<None, None>>, <<Num(2 * Unit), Num(0)>>, <<Num(2 * Unit), Num(Unit)>>,
      <<Num(0), Num(0)>>, <<Str(<<"A">>), Num(2 * Unit)>>, <<Num(2 * Unit), None>> }
ComponentMembers == {Member("Wood", Num(2 * Unit)), Member("Cloth", Str(<<"A">>))}
ComponentValues ==
    {None, EmptyDict}
        \cup { Components(m) : m \in UNION { [1..n -> ComponentMembers] : n \in 1..MaxComponents } }

InitStats ==
    /\ DocUnused /\ NormUnused /\ FetchUnused /\ EmbedUnused /\ BotUnused /\ SuggestUnused

\* _build_stats_block(d), d an object
BuildStatsBlock ==
    /\ details = Unset
    /\ \E released \in ReleaseValues, sp \in {None, Num(60 * Unit)},
          supply \in SupplyValues, subs \in SubscriberValues, votes \in VoteValues,
          favs \in FavouriteValues, views \in {None, Bool(TRUE), Str(<<"A">>), Infinity},
          comps \in ComponentValues :
            /\ details' = Details(sp, None, None, None, None, None, None, None, None)
                            @@ StatsFields(released, supply[1], supply[2], subs[1], subs[2],
                                           votes[1], votes[2], favs[1], favs[2], views, comps)
            /\ stats_block' = build_stats_block(details')
    /\ UNCHANGED <<bd, urls, include_third_party, price_block, view, normVars, fetchVars, botVars, suggestVars>>

\* _build_stats_block(d) without a document
BuildStatsWithoutDetails ==
    /\ details = Unset
    /\ \E d \in NoDetails :
          /\ details' = d
          /\ stats_block' = build_stats_block(d)
    /\ UNCHANGED <<bd, urls, include_third_party, price_block, view, normVars, fetchVars, botVars, suggestVars>>

NextStats == BuildStatsBlock \/ BuildStatsWithoutDetails

SpecStats == InitStats /\ [][NextStats]_vars

\* the seven facts: the keys each reads, and the text its line begins with
Facts ==
    { [keys |-> {"timeAccepted", "storePrice"},
       labels |-> {"[cart] Released on **", "[cart] Store price "}],
      [keys |-> {"supplyTotalEstimated", "supplyTotalOwnersEstimated"},
       labels |-> {"[box] Estimated supply: **"}],
      [keys |-> {"subscriptionsCurrent", "subscriptionsLifetime"},
       labels |-> {"[people] Workshop subscribers: **"}],
      [keys |-> {"votesUp", "votesDown"}, labels |-> {"[thumb] Votes: **"}],
      [keys |-> {"favouritedCurrent", "favouritedLifetime"},
       labels |-> {"[star] Favourited: **"}],
      [keys |-> {"views"}, labels |-> {"[eyes] Workshop views: **"}],
      [keys |-> {"breaksIntoComponents"}, labels |-> {"[axe] Breaks into "}] }
FactKeys == UNION { f.keys : f \in Facts }

\* the lines of a block that belong to a fact
FactLines(block, f) ==
    IF block = None THEN <<>>
    ELSE LET OfFact(line) == line # <<>> /\ Head(line) \in f.labels IN
         SelectSeq(LinesOf(block.frags), OfFact)

\* the document with every fact but f removed
OnlyFact(d, f) == [k \in DOMAIN d |-> IF k \in FactKeys \ f.keys THEN None ELSE d[k]]

\* a key of the fact holds a value of the shape the fact expects
IsNumeric(x) == x.t \in {"num", "bool"}
HasShape(d, f) ==
    \E k \in f.keys :
        CASE k = "timeAccepted" -> d[k].t = "str"
          [] k = "breaksIntoComponents" ->
                /\ d[k].t = "object"
                /\ \E i \in DOMAIN d[k].members : IsNumeric(d[k].members[i].val)
          [] OTHER -> IsNumeric(d[k])

\* C19: the stats block is None when none of the seven facts is present in the document;
\* the line of a fact is emitted only if a source field of the fact is present with the
\* expected shape; and the line of a fact is what it would be were the other facts
\* missing, so a malformed or missing field removes its own line only, never another
\* fact's line or the whole block.
C19_StatsFactsIndependent ==
    (stats_block # Unset /\ Truthy(details)) =>
        /\ stats_block.t \in {"none", "text"}
        /\ (\A k \in FactKeys : details[k] = None) => stats_block = None
        /\ \A f \in Facts :
              /\ FactLines(stats_block, f) # <<>> => HasShape(details, f)
              /\ Len(FactLines(stats_block, f)) <= 1
              /\ FactLines(stats_block, f)
                    = FactLines(build_stats_block(OnlyFact(details, f)), f)
        /\ stats_block # None =>
              \A i \in DOMAIN LinesOf(stats_block.frags) :
                  \E f \in Facts : Head(LinesOf(stats_block.frags)[i]) \in f.labels

-----------------------------------------------------------------------------
(* build_iteminfo_view (embeds.py:114-172) *)

Button(label, url) == [label |-> label, url |-> url]
View(buttons) == [t |-> "view", buttons |-> buttons]

\* lines 136-167 with the Skinport button added before the CS.Deals button
add_buttons_skinport_first(u) ==
    (IF Truthy(u.steam) THEN <<Button("Steam Market", u.steam)>> ELSE <<>>)
        \o (IF Truthy(u.skinport) THEN <<Button("Skinport", u.skinport)>> ELSE <<>>)
        \o (IF Truthy(u.csdeals) THEN <<Button("CS.Deals", u.csdeals)>> ELSE <<>>)

\* lines 136-167: view.add_item(...) for each venue with a URL
add_buttons(u) ==
    (IF Truthy(u.steam) THEN <<Button("Steam Market", u.steam)>> ELSE <<>>)
        \o (IF Truthy(u.csdeals) THEN <<Button("CS.Deals", u.csdeals)>> ELSE <<>>)
        \o (IF Truthy(u.skinport) THEN <<Button("Skinport", u.skinport)>> ELSE <<>>)

build_iteminfo_view(d) ==
    LET buttons == add_buttons(extract_market_urls(d)) IN
    IF Len(buttons) = 0 THEN None ELSE View(buttons)

-----------------------------------------------------------------------------
(* Specification SpecView: build_iteminfo_view on an item detail document *)

InitView ==
    /\ DocUnused /\ NormUnused /\ FetchUnused /\ EmbedUnused /\ BotUnused /\ SuggestUnused

\* build_iteminfo_view(d), d holding at most MaxUrlEntries price entries
BuildIteminfoView ==
    /\ details = Unset
    /\ \E i \in 0..MaxUrlEntries, hasBuy \in BOOLEAN, hasSell \in BOOLEAN, name \in Names :
        \E j \in 0..(MaxUrlEntries - i) :
          \E b \in [1..i -> UrlEntries], s \in [1..j -> UrlEntries],
             t1 \in TopValues("steamMarketUrl"), t4 \in TopValues("skinportUrl") :
            /\ ~hasBuy => i = 0
            /\ ~hasSell => j = 0
            /\ details' = Details(None, ListOrAbsent(hasBuy, b), ListOrAbsent(hasSell, s),
                                  name, t1, None, None, t4, None)
            /\ urls' = extract_market_urls(details')
            /\ view' = build_iteminfo_view(details')
    /\ UNCHANGED <<bd, include_third_party, price_block, stats_block, normVars, fetchVars, botVars, suggestVars>>

NextView == BuildIteminfoView

SpecView == InitView /\ [][NextView]_vars

\* the venues in the order of the buttons, with the label of each
VenueOrder ==
    << [venue |-> "steam", label |-> "Steam Market"],
       [venue |-> "csdeals", label |-> "CS.Deals"],
       [venue |-> "skinport", label |-> "Skinport"] >>
HasUrl(x) == x.venue \in { k \in {"steam", "csdeals", "skinport"} : urls[k] # None }
ExpectedButtons ==
    LET withUrl == SelectSeq(VenueOrder, HasUrl) IN
    [i \in 1..Len(withUrl) |-> Button(withUrl[i].label, urls[withUrl[i].venue])]

\* C20: the view holds at most three link buttons, in the order Steam, CS.Deals,
\* Skinport, with a button for a venue exactly when the Market URL Set has a URL for it,
\* and the result is None exactly when no venue has a URL.
C20_ButtonsInOrder ==
    view # Unset =>
        /\ view = None <=> \A k \in {"steam", "csdeals", "skinport"} : urls[k] = None
        /\ view # None =>
              /\ Len(view.buttons) <= 3
              /\ view.buttons = ExpectedButtons

\* a document with a name and a Skinport URL among its entries: three buttons, the
\* Skinport one last and with the URL of the entry
C20_Witness ==
    /\ view # Unset /\ view # None
    /\ Len(view.buttons) = 3
    /\ view.buttons[2].label = "CS.Deals"
    /\ view.buttons[3] = Button("Skinport", SourceUrl("url"))

-----------------------------------------------------------------------------
(* No retries (SpecFetch) *)

\* the response is a failure of the GET: a network failure, a non-2xx status, another
\* exception of the client, or a body that is no JSON
FailedGet(resp) == resp.kind # "json"

\* C18: within one invocation of a fetch operation each HTTP GET is issued at most once;
\* after a request fails the operation fails at once and issues no further request;
\* fetch_store_items_for_date issues at most two requests, the store list and then the
\* chosen store, and only the first when no store matches.
C18_NoRetries ==
    pc # "idle" =>
        /\ \A i, j \in DOMAIN requests : requests[i] = requests[j] => i = j
        /\ Len(requests) <= IF ForDate THEN 2 ELSE 1
        /\ Len(responses) <= Len(requests)
        /\ \A k \in DOMAIN responses :
              FailedGet(responses[k]) =>
                  /\ Len(requests) = k
                  /\ pc = "done" /\ outcome.kind = "raise" /\ outcome.exc = "RuntimeError"
        /\ ForDate =>
              /\ Len(requests) >= 1 /\ requests[1] = <<ApiBase, "/store">>
              /\ Len(requests) = 2 =>
                    /\ ~FailedGet(responses[1])
                    /\ MatchingStores # {}
                    /\ requests[2] = StoreUrl(chosen.id.s)

\* fetch_store_items_for_date got the store list, asked for the chosen store, and that
\* request failed with status 500: it ended there with two requests issued
C18_Witness ==
    /\ ForDate /\ pc = "done"
    /\ Len(requests) = 2 /\ Len(responses) = 2
    /\ responses[2] = Status("500")
    /\ outcome.kind = "raise"

-----------------------------------------------------------------------------
(* The embeds of embeds.py and main.py.  An embed is its title, its description, its
   fields and its footer; colour and image are left out, and a backquote is written
   as a quote. *)

Embed(title, description, fields, footer) ==
    [t |-> "embed", title |-> title, description |-> description, fields |-> fields,
     footer |-> footer]
Field(name, value) == [name |-> name, value |-> value]

\* f"{x}" of an identifier
IdText(x) == IF x.t = "num" THEN FmtInt(x.n) ELSE PyStr(x)

\* embeds.py:282-287
subtitle(item) ==
    LET parts == (IF Truthy(item.item_type) THEN <<item.item_type.s>> ELSE <<>>)
                 \o (IF Truthy(item.collection)
                     THEN <<item.collection.s \o <<" collection">> >> ELSE <<>>)
    IN IF parts = <<>> THEN <<"Rust store item">>
       ELSE IF Len(parts) = 1 THEN parts[1]
       ELSE parts[1] \o <<" [dot] ">> \o parts[2]

\* embeds.py:306-313
id_lines(item) ==
    (IF Truthy(item.workshop_file_id)
     THEN << <<"Workshop: '">> \o IdText(item.workshop_file_id) \o <<"'">> >> ELSE <<>>)
    \o (IF item.id # None
        THEN << <<"Store ID: '">> \o IdText(item.id) \o <<"'">> >> ELSE <<>>)
    \o (IF Truthy(item.app_id)
        THEN << <<"App ID: '">> \o IdText(item.app_id) \o <<"'">> >> ELSE <<>>)

\* the "Item stats" field, added when the block is not empty
stats_field(block) ==
    IF block.t = "text" THEN <<Field("[chart] Item stats", block.frags)>> ELSE <<>>

\* the "Details" field, added when there are identifier lines
details_field(lines) ==
    IF lines # <<>> THEN <<Field("[receipt] Details", JoinLines(lines))>> ELSE <<>>

\* embeds.py:289-331, given the stats block: the embed, or the exception that
\* _build_stats_block raised
store_item_embed(item, d, flag, block) ==
    IF block.t = "raise" THEN block
    ELSE Embed(item.name.s, subtitle(item),
               <<Field("[cart] Prices", render_market_lines(d, flag))>>
                   \o details_field(id_lines(item)) \o stats_field(block),
               <<"SCMM [dot] Weekly Rust Store [dot] Auto-deletes in 5 minutes">>)

\* build_store_item_embed (embeds.py:269-331)
build_store_item_embed(item, d, flag) == store_item_embed(item, d, flag, build_stats_block(d))

\* embeds.py:400-434, given the stats block
item_overview_embed(d, block) ==
    IF block.t = "raise" THEN block
    ELSE Embed(Or(d.name, Str(<<"Unknown item">>)).s,
               <<"Cross-market overview (Store, Steam, Skinport, CS.Deals)">>,
               <<Field("[cart] Prices", render_market_lines(d, TRUE))>> \o stats_field(block),
               <<"SCMM [dot] Item Market Overview [dot] Auto-deletes in 5 minutes">>)

\* build_item_overview_embed (embeds.py:388-434)
build_item_overview_embed(d) == item_overview_embed(d, build_stats_block(d))

-----------------------------------------------------------------------------
(* The commands of main.py (main.py:102-466) *)

MAX_WEEK_ITEMS == 20
DEFAULT_DELETE_DELAY == 300

\* datetime.date(year, month, day): the days of a month
IsLeap(year) == (year % 4 = 0 /\ year % 100 # 0) \/ year % 400 = 0
DaysInMonth(year, month) ==
    IF month = 2 THEN (IF IsLeap(year) THEN 29 ELSE 28)
    ELSE IF month \in {4, 6, 9, 11} THEN 30 ELSE 31

\* Date(year, month, day) does not raise ValueError
ValidDate(d) ==
    /\ d.year \in 1..9999
    /\ d.month \in 1..12
    /\ d.day \in 1..DaysInMonth(d.year, d.month)

\* target_date.isoformat(), shortened to the day as the "start" texts are
isoformat(d) == IF d.day < 10 THEN <<"0">> \o Digits(d.day) ELSE Digits(d.day)

WeekFooter == <<"SCMM [dot] Weekly Store by Date [dot] Auto-deletes in 5 minutes">>
ItemFooter == <<"SCMM [dot] Item Market Overview [dot] Auto-deletes in 5 minutes">>

\* main.py:320-325
InvalidDateEmbed ==
    Embed(<<"[cart] Weekly Store - Invalid Date">>, <<"That date is not valid: 'ValueError'">>,
          <<>>, WeekFooter)

\* main.py:333-338
WeekErrorEmbed(msg) == Embed(<<"[cart] Weekly Store - Error">>, msg, <<>>, WeekFooter)

\* main.py:343-351
NoStoreEmbed(target) ==
    Embed(<<"[cart] Weekly Store - No Store for That Date">>,
          <<"No store was found with start date '">> \o target \o <<"'.", "\n",
            "Use '/store_list_debug' to see available store dates.">>,
          <<>>, WeekFooter)

\* main.py:382-387
footer_label(target, store_id) ==
    <<"SCMM [dot] Store ">> \o target
        \o (IF Truthy(store_id) THEN <<" [dot] ID ">> \o store_id.s ELSE <<>>)
        \o <<" [dot] Auto-deletes in 5 minutes">>

\* main.py:393-401
TruncationEmbed(total_items) ==
    Embed(<<"[warning] Store truncated">>,
          <<"This store has **">> \o FmtInt(total_items) \o <<"** items.", "\n",
            "Showing the first **">> \o FmtInt(MAX_WEEK_ITEMS)
              \o <<"** to avoid spamming the channel.">>,
          <<>>, WeekFooter)

\* main.py:439-454
ItemErrorEmbed(msg) ==
    Embed(IF \/ Contains(msg, <<"No item found on SCMM">>)
             \/ Contains(msg, <<"Item name is required">>)
          THEN <<"[search] Item Not Found">> ELSE <<"[search] Item Lookup - Error">>,
          msg, <<>>, ItemFooter)

\* ---- the frame of a command invocation: its arguments, where it is suspended, its
\* ---- locals, the SCMM URLs it requested and how it ended
Frame(cmd, args) ==
    [cmd |-> cmd, args |-> args, pc |-> "defer",
     target_date |-> <<>>, chosen |-> Unset, items |-> <<>>, store_id |-> Unset,
     total_items |-> 0, truncated |-> FALSE, k |-> 0, pending |-> Unset,
     requests |-> <<>>, exit |-> "running"]

\* an invocation: its frame, and what the network answered to its calls (SCMM and
\* Discord), in order
Invocation(cmd, args) == [locals |-> Frame(cmd, args), answers |-> <<>>]
NotInvoked == [locals |-> [Frame("none", None) EXCEPT !.pc = "idle"], answers |-> <<>>]

\* what Discord answers to a call: "ok", "NotFound" or "HTTPException"
Discord(result) == [kind |-> "discord", result |-> result]

\* the request of the next item is issued along with the pending one
GetAhead(r, at, url) == [r EXCEPT !.pc = at, !.requests = Append(Append(@, url), url)]

\* await _http_get_json(url)
Get(r, at, url) == [r EXCEPT !.pc = at, !.requests = Append(@, url)]
\* await interaction.followup.send(...), and where the command goes on afterwards
Send(r, embed, ui, autodelete, next) ==
    [r EXCEPT !.pc = "send",
              !.pending = [embed |-> embed, view |-> ui, autodelete |-> autodelete,
                           next |-> next]]
\* the command returns, or an exception leaves it
Finish(r, how) == [r EXCEPT !.pc = "done", !.pending = Unset, !.exit = how]
LastRequest(r) == r.requests[Len(r.requests)]

\* send_followup_autodelete (main.py:102-147), up to its await
send_followup_autodelete(r, embed, ui, next) == Send(r, embed, ui, TRUE, next)

\* interaction.followup.send(embed=embed) of the debug commands (main.py:176, 218, 242,
\* 252, 280)
followup_send(r, embed, next) == Send(r, embed, None, FALSE, next)

\* ---- week_lookup (main.py:297-402)
\* lines 382-389: the footer is set and the card sent, unless building it raised
week_card_send(r, embed) ==
    IF embed.t = "raise" THEN Finish(r, embed.exc)
    ELSE send_followup_autodelete(
             r, [embed EXCEPT !.footer = footer_label(r.target_date, r.store_id)],
             None, "loop")

\* lines 376-389: the card of the current item
week_card(r, d) == week_card_send(r, build_store_item_embed(r.items[r.k], d, FALSE))

\* lines 364-374, given the outcome of fetch_item_details_for_store_item
week_detail_done(r, out) ==
    IF out.kind = "raise" /\ out.exc # "RuntimeError" THEN Finish(r, out.exc)
    ELSE week_card(r, IF out.kind = "return" THEN out.value ELSE None)

\* lines 363-367 and 391-402: the head of the loop, and what follows the loop
week_loop(r) ==
    IF r.k <= Len(r.items)
    THEN IF ~Truthy(r.items[r.k].name)
         THEN week_detail_done(
                  r, Raise("RuntimeError", <<"Item has no name for detail lookup">>))
         ELSE Get(r, "http_item", ItemUrl(quote(r.items[r.k].name.s)))
    ELSE IF r.truncated
         THEN send_followup_autodelete(r, TruncationEmbed(r.total_items), None, "return")
    ELSE Finish(r, "return")

\* lines 355-360
week_started(r, items, store_id) ==
    week_loop([r EXCEPT !.items = IF Len(items) > MAX_WEEK_ITEMS
                                  THEN SubSeq(items, 1, MAX_WEEK_ITEMS)
                                  ELSE items,
                        !.store_id = store_id,
                        !.total_items = Len(items),
                        !.truncated = Len(items) > MAX_WEEK_ITEMS,
                        !.k = 1])

\* lines 330-360, given the outcome of fetch_store_items_for_date
week_fetched(r, out) ==
    IF out.kind = "raise"
    THEN IF out.exc = "RuntimeError"
         THEN send_followup_autodelete(r, WeekErrorEmbed(out.msg), None, "return")
         ELSE Finish(r, out.exc)
    ELSE IF out.value.items = <<>>
         THEN send_followup_autodelete(r, NoStoreEmbed(r.target_date), None, "return")
    ELSE week_started(r, out.value.items, out.value.store_id)

\* lines 316-331
week_deferred(r) ==
    IF ~ValidDate(r.args)
    THEN send_followup_autodelete(r, InvalidDateEmbed, None, "return")
    ELSE Get([r EXCEPT !.target_date = isoformat(r.args)], "http_list", <<ApiBase, "/store">>)

\* scmm_client.py:284-308: the store is selected, or the operation ends
week_selected(r, sel) ==
    IF sel.ends THEN week_fetched(r, sel.outcome)
    ELSE Get([r EXCEPT !.chosen = sel.chosen], "http_store", StoreUrl(PyStr(sel.chosen.id)))

\* the store list arrives
week_listed(r, resp) ==
    week_selected(r, for_date_select(
                         fetch_store_list_raw(http_get_json(LastRequest(r), resp)),
                         r.target_date))

\* the items of the chosen store arrive (scmm_client.py:308-309)
week_stored(r, resp) ==
    week_fetched(r, for_date_finish(
                        fetch_store_items_by_id(http_get_json(LastRequest(r), resp)),
                        r.chosen.id))

\* fetch_item_details_for_store_item after its GET (scmm_client.py:329-332)
item_details(got) == IF got.kind = "raise" THEN got ELSE details_or_error(got)

\* the details of the current item arrive (main.py:366-374)
week_detailed(r, resp) ==
    week_detail_done(r, item_details(http_get_json(LastRequest(r), resp)))

\* ---- item_lookup (main.py:417-466)
\* lines 459-466: the overview and its view are sent, unless building it raised
item_send(r, d, embed) ==
    IF embed.t = "raise" THEN Finish(r, embed.exc)
    ELSE send_followup_autodelete(r, embed, build_iteminfo_view(d), "return")

\* lines 438-466, given the outcome of fetch_item_details_by_name
item_fetched(r, out) ==
    IF out.kind = "raise"
    THEN IF out.exc = "RuntimeError"
         THEN send_followup_autodelete(r, ItemErrorEmbed(out.msg), None, "return")
         ELSE Finish(r, out.exc)
    ELSE item_send(r, out.value, build_item_overview_embed(out.value))

\* scmm_client.py:363-368: no request for a blank name
item_named(r, clean) ==
    IF clean = <<>> THEN item_fetched(r, Raise("RuntimeError", <<"Item name is required">>))
    ELSE Get(r, "http_name", ItemUrl(quote(clean)))

\* line 437, up to the GET of fetch_item_details_by_name
item_deferred(r) == item_named(r, clean_name(r.args))

\* scmm_client.py:370-384
by_name_outcome(got, clean) ==
    IF got.kind = "raise" THEN by_name_reraise(got, clean) ELSE details_or_error(got)

item_answered(r, resp) ==
    item_fetched(r, by_name_outcome(http_get_json(LastRequest(r), resp), clean_name(r.args)))

\* ---- store_current_debug (main.py:159-218)
\* json.dumps of a number or of null
json_dumps(x) == IF x.t = "num" THEN FmtInt(x.n) ELSE <<"null">>

\* lines 183-199: only the key "items" of the four candidates occurs in the answers
sample_block(data) ==
    IF "items" \in DOMAIN data /\ data.items.t = "list" /\ data.items.l # <<>>
    THEN <<"Key: 'items'", "\n", "'''json", "\n">> \o json_dumps(data.items.l[1])
             \o <<"\n", "'''">>
    ELSE <<"No obvious item list found (keys only).">>

top_keys(data) == IF "items" \in DOMAIN data THEN <<"items">> ELSE <<"_root">>

DebugFooter == <<"SCMM [dot] Store Debug">>

\* lines 167-218, given the outcome of fetch_store_current_raw
current_fetched(r, out) ==
    IF out.kind = "raise"
    THEN followup_send(r, Embed(<<"[tube] Store Debug - Error">>, out.msg, <<>>, DebugFooter),
                       "return")
    ELSE followup_send(
             r, Embed(<<"[tube] SCMM Store - Current (Debug)">>,
                      <<"Raw structure preview from '/api/store/current'.">>,
                      <<Field("[brick] Top-level keys",
                              <<"'">> \o top_keys(out.value) \o <<"'">>),
                        Field("[box] Sample item (first in list)", sample_block(out.value))>>,
                      DebugFooter),
             "return")

current_answered(r, resp) ==
    current_fetched(r, fetch_store_current_raw(http_get_json(LastRequest(r), resp)))

\* ---- store_list_debug (main.py:225-280)
\* start_key (lines 256-258)
start_key(store) == IF store.start # None THEN PyStr(store.start) ELSE <<>>

\* sorted(stores, key=start_key, reverse=True): descending, equal keys in list order
RECURSIVE InsertNewestFirst(_, _)
InsertNewestFirst(sorted, store) ==
    IF sorted = <<>> THEN <<store>>
    ELSE IF StrLess(start_key(sorted[Len(sorted)]), start_key(store))
         THEN Append(InsertNewestFirst(SubSeq(sorted, 1, Len(sorted) - 1), store),
                     sorted[Len(sorted)])
    ELSE Append(sorted, store)
RECURSIVE SortedNewestFirst(_)
SortedNewestFirst(list) ==
    IF list = <<>> THEN <<>>
    ELSE InsertNewestFirst(SortedNewestFirst(SubSeq(list, 1, Len(list) - 1)),
                           list[Len(list)])

\* stores_sorted[:10]
first_ten(sorted) == SubSeq(sorted, 1, IF Len(sorted) > 10 THEN 10 ELSE Len(sorted))

\* lines 263-270
list_line(store) ==
    <<"ID '">> \o PyStr(store.id) \o <<"' [dot] start '">> \o PyStr(store.start)
        \o <<"' [dot] ">>
list_body(top) == JoinLines([j \in DOMAIN top |-> list_line(top[j])])

ListFooter == <<"SCMM [dot] Store List Debug">>

\* lines 233-280, given the outcome of fetch_store_list_raw
stores_fetched(r, out) ==
    IF out.kind = "raise"
    THEN followup_send(r, Embed(<<"[receipt] Store List - Error">>, out.msg, <<>>, ListFooter),
                       "return")
    ELSE IF out.value = <<>>
         THEN followup_send(r, Embed(<<"[receipt] Store List - Empty">>,
                                     <<"SCMM /api/store returned no store instances.">>,
                                     <<>>, ListFooter),
                            "return")
    ELSE IF \E j \in DOMAIN out.value : out.value[j].t # "dict"
         THEN Finish(r, "AttributeError")
    ELSE followup_send(r, Embed(<<"[receipt] Store List - Latest 10">>,
                                list_body(first_ten(SortedNewestFirst(out.value))),
                                <<>>, ListFooter),
                       "return")

stores_answered(r, resp) ==
    stores_fetched(r, fetch_store_list_raw(http_get_json(LastRequest(r), resp)))

\* ---- the commands between two awaits
\* the command goes on after send_followup_autodelete or followup.send returned
after_send(r) ==
    IF r.pending.next = "loop" THEN week_loop([r EXCEPT !.k = @ + 1, !.pending = Unset])
    ELSE Finish(r, "return")

\* the same without the return of the except clause: the command goes on after a defer
\* that Discord answered NotFound
deferred_without_return(r, result) ==
    IF result \notin {"ok", "NotFound"} THEN Finish(r, result)
    ELSE CASE r.cmd = "week_lookup" -> week_deferred(r)
           [] r.cmd = "item_lookup" -> item_deferred(r)
           [] r.cmd = "store_current_debug" ->
                  Get(r, "http_current", <<ApiBase, "/store/current">>)
           [] r.cmd = "store_list_debug" -> Get(r, "http_stores", <<ApiBase, "/store">>)

\* the try/except around interaction.response.defer (main.py:161-165, 227-231, 310-314,
\* 430-434) and what the command does next
deferred(r, result) ==
    IF result = "NotFound" THEN Finish(r, "return")
    ELSE IF result # "ok" THEN Finish(r, result)
    ELSE CASE r.cmd = "week_lookup" -> week_deferred(r)
           [] r.cmd = "item_lookup" -> item_deferred(r)
           [] r.cmd = "store_current_debug" ->
                  Get(r, "http_current", <<ApiBase, "/store/current">>)
           [] r.cmd = "store_list_debug" -> Get(r, "http_stores", <<ApiBase, "/store">>)

\* the follow-up was answered, were NotFound not caught anywhere
sent_without_except(r, result) ==
    IF result = "ok" THEN after_send(r) ELSE Finish(r, result)

\* the follow-up was answered: only send_followup_autodelete catches NotFound
\* (main.py:125-133)
sent(r, result) ==
    IF result = "ok" \/ (result = "NotFound" /\ r.pending.autodelete) THEN after_send(r)
    ELSE Finish(r, result)

\* the answer of SCMM to the pending request arrives
scmm_answered(r, resp) ==
    CASE r.pc = "http_list" -> week_listed(r, resp)
      [] r.pc = "http_store" -> week_stored(r, resp)
      [] r.pc = "http_item" -> week_detailed(r, resp)
      [] r.pc = "http_name" -> item_answered(r, resp)
      [] r.pc = "http_current" -> current_answered(r, resp)
      [] r.pc = "http_stores" -> stores_answered(r, resp)

\* ---- the deletion timers (main.py:135-147)
Timer(message) ==
    [message |-> message, delay |-> DEFAULT_DELETE_DELAY, slept |-> 0, state |-> "sleeping",
     result |-> "pending", log |-> "", raised |-> Unset]

\* interaction.client.loop.create_task(_delete_later(msg)), done twice
create_task_twice(tasks, message) == Append(Append(tasks, Timer(message)), Timer(message))

\* interaction.client.loop.create_task(_delete_later(msg)) (line 147)
create_task(tasks, message) == Append(tasks, Timer(message))

\* what _delete_later logs for an outcome of message.delete() (lines 139-145)
delete_later_log(result) ==
    CASE result = "ok" -> "info: Auto-deleted message"
      [] result = "NotFound" -> "info: Message already deleted."
      [] result = "Forbidden" -> "warning: No permission to delete message"
      [] OTHER -> "exception: Failed to auto-delete message"

\* the exception that leaves _delete_later, were only NotFound and Forbidden caught
delete_later_raises_uncaught(result) ==
    IF result \in {"ok", "NotFound", "Forbidden"} THEN None ELSE Str(<<result>>)

\* the exception that leaves _delete_later: every outcome is caught (lines 140-145)
delete_later_raises(result) == None

\* a message of the channel, were the embed to send kept in one module-level variable
\* that the first invocation overwrites
SharedMessage(i, pending) ==
    [by |-> i,
     embed |-> IF inv[1].locals.pc = "send" THEN inv[1].locals.pending.embed
               ELSE pending.embed,
     view |-> pending.view, auto |-> pending.autodelete]

\* a message of the channel: who sent it, what, and whether through
\* send_followup_autodelete
Message(i, pending) ==
    [by |-> i, embed |-> pending.embed, view |-> pending.view, auto |-> pending.autodelete]

\* the frame a step of invocation i works on
Locals(i) == inv[i].locals

PcOf(i) == inv[i].locals.pc
HttpPcs == {"http_list", "http_store", "http_item", "http_name", "http_current", "http_stores"}

\* Discord has answered NotFound to the invocation: its interaction stays unknown
Expired(i) == \E j \in DOMAIN inv[i].answers : inv[i].answers[j] = Discord("NotFound")

\* the answer a reaches invocation i, whose frame becomes r
Answer(i, a, r) ==
    inv' = [inv EXCEPT ![i] = [locals |-> r, answers |-> Append(inv[i].answers, a)]]

Invoke(i, cmd, args) ==
    /\ PcOf(i) = "idle"
    /\ inv' = [inv EXCEPT ![i] = Invocation(cmd, args)]
    /\ UNCHANGED <<channel, timers, deletions, normVars, docVars, fetchVars, embedVars,
                 suggestVars>>

DeferAnswered(i, result) ==
    /\ PcOf(i) = "defer"
    /\ Answer(i, Discord(result), deferred(Locals(i), result))
    /\ UNCHANGED <<channel, timers, deletions, normVars, docVars, fetchVars, embedVars,
                 suggestVars>>

ScmmAnswered(i, resp) ==
    /\ PcOf(i) \in HttpPcs
    /\ Answer(i, resp, scmm_answered(Locals(i), resp))
    /\ UNCHANGED <<channel, timers, deletions, normVars, docVars, fetchVars, embedVars,
                 suggestVars>>

\* lines 125-147 after the await: the message exists and its timer is created, or the
\* send failed
SendAnswered(i, result) ==
    /\ PcOf(i) = "send"
    /\ result = "ok" => ~Expired(i)
    /\ Answer(i, Discord(result), sent(Locals(i), result))
    /\ IF result = "ok"
       THEN /\ channel' = Append(channel, Message(i, Locals(i).pending))
            /\ timers' = IF Locals(i).pending.autodelete
                         THEN create_task(timers, Len(channel) + 1)
                         ELSE timers
       ELSE UNCHANGED <<channel, timers>>
    /\ UNCHANGED <<deletions, normVars, docVars, fetchVars, embedVars,
                 suggestVars>>

\* asyncio.sleep(delay) returns (line 137)
SleepElapsed(t) ==
    /\ t \in DOMAIN timers /\ timers[t].state = "sleeping"
    /\ timers' = [timers EXCEPT ![t].slept = timers[t].delay, ![t].state = "due"]
    /\ UNCHANGED <<inv, channel, deletions, normVars, docVars, fetchVars, embedVars,
                 suggestVars>>

\* message.delete() and its outcome (lines 138-145)
DeleteAttempted(t, result) ==
    /\ t \in DOMAIN timers /\ timers[t].state = "due"
    /\ deletions' = Append(deletions, timers[t].message)
    /\ timers' = [timers EXCEPT ![t].state = "done", ![t].result = result,
                                ![t].log = delete_later_log(result),
                                ![t].raised = delete_later_raises(result)]
    /\ UNCHANGED <<inv, channel, normVars, docVars, fetchVars, embedVars,
                 suggestVars>>

-----------------------------------------------------------------------------
(* What the network answers to the commands *)

MaxExtra == 1       \* items of a store beyond MAX_WEEK_ITEMS
MaxTroubles == 1    \* answers to one invocation that are failures

\* year, month, day: a store date, and two that are no calendar dates
DateArgs ==
    { [year |-> 2025, month |-> 11, day |-> 6], [year |-> 2025, month |-> 2, day |-> 29],
      [year |-> 2025, month |-> 13, day |-> 1] }

\* the "items" of a store with n items, named A1, A2, ...
raw_items(n) ==
    [j \in 1..n |-> RawItem(Num(j), Str(<<"A">> \o Digits(j)), None, None, None, None)]

\* item details with a store price and the given "views"
BotDoc(views) ==
    Details(Num(2 * Unit), None, None, Str(<<"A">>), None, None, None, None, None)
        @@ StatsFields(None, None, None, None, None, None, None, None, None, views, None)
PlainDoc == BotDoc(Num(7 * Unit))
\* "views": 1e400, which json reads as float('inf')
InfDoc == BotDoc(Infinity)

DiscordResults == {"ok", "NotFound", "HTTPException"}
ListAnswers ==
    { Status("500"), Json(List(<<>>)), Json(List(<<Other>>)),
      Json(List(<<Store(Str(Day6 \o <<"T", "1", "0">>), Str(<<"X">>))>>)) }
StoreAnswers(counts) ==
    { Status("500") } \cup { Json(ItemsObject(List(raw_items(n)))) : n \in counts }
DetailAnswers == { Json(PlainDoc), Json(InfDoc), Status("500"), Status("404") }
CurrentAnswers ==
    { Status("500"), Json(ItemsObject(None)), Json(ItemsObject(List(<<Num(7)>>))) }

\* the answers SCMM may give to the pending request of invocation i
ScmmAnswers(i, counts) ==
    CASE PcOf(i) \in {"http_list", "http_stores"} -> ListAnswers
      [] PcOf(i) = "http_store" -> StoreAnswers(counts)
      [] PcOf(i) \in {"http_item", "http_name"} -> DetailAnswers
      [] PcOf(i) = "http_current" -> CurrentAnswers
      [] OTHER -> {}

\* an answer that is no failure
Plain(a) ==
    \/ a = Discord("ok")
    \/ a.kind = "json" /\ a.body \notin {InfDoc, List(<<Other>>)}
Troubles(i) ==
    Cardinality({ j \in DOMAIN inv[i].answers :
                    ~Plain(inv[i].answers[j]) /\ inv[i].answers[j] # Discord("NotFound") })
        + (IF Expired(i) THEN 1 ELSE 0)
\* at most MaxTroubles failures reach an invocation; an unknown interaction stays unknown
Allowed(i, a) ==
    \/ Plain(a)
    \/ a = Discord("NotFound") /\ Expired(i)
    \/ Troubles(i) < MaxTroubles

-----------------------------------------------------------------------------
(* Specification SpecWeek: one invocation of week_lookup, without its timers' steps *)

ItemCounts == {0, 1, 2} \cup ((MAX_WEEK_ITEMS - 1)..(MAX_WEEK_ITEMS + MaxExtra))

InitWeek ==
    /\ NormUnused /\ DocUnused /\ FetchUnused /\ EmbedUnused /\ SuggestUnused
    /\ inv = [i \in {1} |-> NotInvoked]
    /\ channel = <<>> /\ timers = <<>> /\ deletions = <<>>

WeekInvoked == \E args \in DateArgs : Invoke(1, "week_lookup", args)
WeekDeferAnswered ==
    \E result \in DiscordResults : Allowed(1, Discord(result)) /\ DeferAnswered(1, result)
WeekScmmAnswered ==
    \E resp \in ScmmAnswers(1, ItemCounts) : Allowed(1, resp) /\ ScmmAnswered(1, resp)
WeekSendAnswered ==
    \E result \in DiscordResults : Allowed(1, Discord(result)) /\ SendAnswered(1, result)

NextWeek == WeekInvoked \/ WeekDeferAnswered \/ WeekScmmAnswered \/ WeekSendAnswered

SpecWeek == InitWeek /\ [][NextWeek]_vars

-----------------------------------------------------------------------------
(* Claims about week_lookup *)

\* the embeds of the messages invocation i has sent, in order
SentBy(i) ==
    LET mine == SelectSeq(channel, LAMBDA m : m.by = i) IN
    [j \in DOMAIN mine |-> mine[j].embed]

\* Discord accepted every call of invocation i
AllAccepted(i) ==
    \A j \in DOMAIN inv[i].answers :
        inv[i].answers[j].kind = "discord" => inv[i].answers[j].result = "ok"

\* the "items" of the store that SCMM returned to invocation i of week_lookup: the answer
\* to its second request, which comes after the answers to the defer and to the store list
StoreItemsOf(i) == inv[i].answers[3].body.items.l

IsTruncationNotice(embed) == embed.title = <<"[warning] Store truncated">>

\* C17: when week_lookup has run to its end for a store with n >= 1 items, and Discord
\* accepted every send, the messages it sent are the cards of the first min(n, 20) items
\* in list order, followed by the truncation notice if and only if n > 20.
C17_OneCardPerItemCapped ==
    \A i \in DOMAIN inv :
        LET r == inv[i].locals
            n == r.total_items
            shown == IF n > MAX_WEEK_ITEMS THEN MAX_WEEK_ITEMS ELSE n
            cards == SentBy(i)
        IN (r.cmd = "week_lookup" /\ r.pc = "done" /\ n >= 1 /\ AllAccepted(i)) =>
               /\ Len(cards) = shown + (IF n > MAX_WEEK_ITEMS THEN 1 ELSE 0)
               /\ \A j \in 1..shown :
                     /\ cards[j].title = StoreItemsOf(i)[j].name.s
                     /\ ~IsTruncationNotice(cards[j])
               /\ n > MAX_WEEK_ITEMS => cards[Len(cards)] = TruncationEmbed(n)

-----------------------------------------------------------------------------
(* Specification SpecBot: one invocation of any of the four commands, and the deletion
   timers of the messages it sends.  SpecBotFair adds that the event loop runs a timer
   that can take a step. *)

\* the names given to item_lookup
BotNames == { Str(<<" ">>), Str(<<"A">>) }
\* the numbers of items of a store
BotItemCounts == {0, 1, 2}
DeleteResults == {"ok", "NotFound", "Forbidden", "HTTPException"}

InitBot(invocations) ==
    /\ NormUnused /\ DocUnused /\ FetchUnused /\ EmbedUnused /\ SuggestUnused
    /\ inv = [i \in invocations |-> NotInvoked]
    /\ channel = <<>> /\ timers = <<>> /\ deletions = <<>>

CommandInvoked(i) ==
    \/ \E args \in DateArgs : Invoke(i, "week_lookup", args)
    \/ \E name \in BotNames : Invoke(i, "item_lookup", name)
    \/ Invoke(i, "store_current_debug", None)
    \/ Invoke(i, "store_list_debug", None)
CommandDeferAnswered(i) ==
    \E result \in DiscordResults : Allowed(i, Discord(result)) /\ DeferAnswered(i, result)
CommandScmmAnswered(i, counts) ==
    \E resp \in ScmmAnswers(i, counts) : Allowed(i, resp) /\ ScmmAnswered(i, resp)
CommandSendAnswered(i) ==
    \E result \in DiscordResults : Allowed(i, Discord(result)) /\ SendAnswered(i, result)
TimerSlept == \E t \in DOMAIN timers : SleepElapsed(t)
TimerDeleted(results) ==
    \E t \in DOMAIN timers : \E result \in results : DeleteAttempted(t, result)

NextBot ==
    \/ CommandInvoked(1) \/ CommandDeferAnswered(1) \/ CommandScmmAnswered(1, BotItemCounts)
    \/ CommandSendAnswered(1) \/ TimerSlept \/ TimerDeleted(DeleteResults)

SpecBot == InitBot({1}) /\ [][NextBot]_vars
SpecBotFair == SpecBot /\ WF_vars(TimerSlept) /\ WF_vars(TimerDeleted(DeleteResults))

-----------------------------------------------------------------------------
(* Specification SpecPair: two invocations that run concurrently, interleaved at their
   awaits with each other and with the deletion timers *)

Pair == {1, 2}
\* stores of two items, so that week_lookup sends twice; deletions that succeed
PairItemCounts == {2}
PairDeleteResults == {"ok"}

NextPair ==
    \/ \E i \in Pair : CommandInvoked(i)
    \/ \E i \in Pair : CommandDeferAnswered(i)
    \/ \E i \in Pair : CommandScmmAnswered(i, PairItemCounts)
    \/ \E i \in Pair : CommandSendAnswered(i)
    \/ TimerSlept
    \/ TimerDeleted(PairDeleteResults)

SpecPair == InitBot(Pair) /\ [][NextPair]_vars

-----------------------------------------------------------------------------
(* Claims about concurrent invocations *)

\* the step of a frame on the answer to its pending call
Resumed(r, a) ==
    CASE r.pc = "defer" -> deferred(r, a.result)
      [] r.pc = "send" -> sent(r, a.result)
      [] OTHER -> scmm_answered(r, a)

\* what a frame sends when it runs by itself and receives the given answers
RECURSIVE Replay(_, _)
Replay(r, answers) ==
    IF answers = <<>> THEN <<>>
    ELSE (IF r.pc = "send" /\ Head(answers) = Discord("ok")
          THEN <<[embed |-> r.pending.embed, view |-> r.pending.view]>>
          ELSE <<>>)
         \o Replay(Resumed(r, Head(answers)), Tail(answers))

RunAlone(i) == Replay(Frame(inv[i].locals.cmd, inv[i].locals.args), inv[i].answers)

\* the messages of the channel that invocation i sent, in order
MessagesOf(i) ==
    LET mine == SelectSeq(channel, LAMBDA m : m.by = i) IN
    [j \in DOMAIN mine |-> [embed |-> mine[j].embed, view |-> mine[j].view]]

\* C16: in every interleaving of two invocations and the deletion timers, the messages an
\* invocation has sent are those it sends when it runs alone with the same arguments and
\* receives the same answers to its own calls.
C16_SameAsAlone == \A i \in DOMAIN inv : PcOf(i) # "idle" => MessagesOf(i) = RunAlone(i)

\* both invocations are suspended in the middle of their runs, each has already sent a
\* message, and a deletion timer has run in between
C16_Witness ==
    /\ \A i \in Pair : PcOf(i) \in HttpPcs \cup {"send"} /\ MessagesOf(i) # <<>>
    /\ deletions # <<>>

-----------------------------------------------------------------------------
(* Claims about the deletion timers *)

TimersOf(m) == { t \in DOMAIN timers : timers[t].message = m }
AttemptsOn(m) == { d \in DOMAIN deletions : deletions[d] = m }
Pending(t) == timers[t].state # "done"

\* every message sent through send_followup_autodelete has exactly one timer; a timer
\* belongs to such a message, is sleeping, due or done, and is due only after the whole
\* delay; a message's deletion was attempted once if its timer is done and never otherwise
TimerPerMessage ==
    /\ \A m \in DOMAIN channel : channel[m].auto => Cardinality(TimersOf(m)) = 1
    /\ \A t \in DOMAIN timers :
          /\ timers[t].message \in DOMAIN channel /\ channel[timers[t].message].auto
          /\ timers[t].state \in {"sleeping", "due", "done"}
          /\ timers[t].delay = DEFAULT_DELETE_DELAY
          /\ timers[t].slept = (IF timers[t].state = "sleeping" THEN 0 ELSE timers[t].delay)
          /\ Cardinality(AttemptsOn(timers[t].message)) = (IF Pending(t) THEN 0 ELSE 1)
    /\ \A d \in DOMAIN deletions : TimersOf(deletions[d]) # {}

\* a timer is never taken away and never steps back
NeverCancelled ==
    \A t \in DOMAIN timers :
        /\ t \in DOMAIN timers' /\ timers'[t].message = timers[t].message
        /\ timers[t].state = "due" => timers'[t].state \in {"due", "done"}
        /\ timers[t].state = "done" => timers'[t] = timers[t]

\* C13: every message that send_followup_autodelete sent has exactly one deletion timer;
\* the timer is never cancelled; no deletion is attempted before the message was sent and
\* the delay has elapsed; and every timer eventually attempts its deletion, exactly once.
C13_TimerPerMessage ==
    /\ []TimerPerMessage
    /\ [][NeverCancelled]_vars
    /\ (\E t \in DOMAIN timers : Pending(t)) ~> (\A t \in DOMAIN timers : ~Pending(t))

\* week_lookup has sent two cards and both deletions were attempted
C13_Witness ==
    /\ Len(channel) = 2 /\ Len(timers) = 2 /\ Len(deletions) = 2
    /\ \A t \in DOMAIN timers : timers[t].state = "done"

\* C14: every message that one of the four commands has sent in response to an
\* interaction, including its error responses, has a deletion timer.
C14_EveryMessageHasTimer == \A m \in DOMAIN channel : TimersOf(m) # {}

\* the timer t has just attempted its deletion
Attempted(t) == t \in DOMAIN timers /\ timers[t].state = "due" /\ timers'[t].state = "done"

\* what the attempt of timer t leaves behind when the deletion succeeds
AfterSuccess(t) ==
    [timers EXCEPT ![t].state = "done", ![t].result = "ok",
                   ![t].log = delete_later_log("ok"), ![t].raised = None]

\* C15: whatever the outcome of a timer's delete attempt, no exception leaves the timer,
\* and the invocations, the channel and the other timers are as they are after a
\* successful deletion; only the outcome and the log line of the timer itself differ.
C15_DeleteOutcomeBenign ==
    [][\A t \in DOMAIN timers :
         Attempted(t) =>
             /\ timers'[t].raised = None
             /\ inv' = inv /\ channel' = channel
             /\ [timers' EXCEPT ![t].result = "ok", ![t].log = delete_later_log("ok")]
                    = AfterSuccess(t)]_vars

\* a deletion has failed with an error other than "already deleted" and "no permission",
\* and the command that sent the message went on and returned
C15_Witness ==
    \E t \in DOMAIN timers :
        /\ timers[t].result = "HTTPException" /\ timers[t].message = 1
        /\ Len(channel) = 2 /\ PcOf(1) = "done" /\ Locals(1).exit = "return"

-----------------------------------------------------------------------------
(* The autocomplete callback of /item_lookup (main.py:474-499) *)

\* the letters of the inputs and their two cases; every other character has no case
LowerOf(c) == CASE c = "A" -> "a" [] c = "B" -> "b" [] OTHER -> c
UpperOf(c) == CASE c = "a" -> "A" [] c = "b" -> "B" [] OTHER -> c
IsCased(c) == c \in {"a", "A", "b", "B"}

\* str.lower()
str_lower(str) == [j \in DOMAIN str |-> LowerOf(str[j])]

\* str.title(): a cased character is put in upper case when no cased character precedes
\* it, and in lower case otherwise
str_title(str) ==
    [j \in DOMAIN str |-> IF j > 1 /\ IsCased(str[j - 1]) THEN LowerOf(str[j])
                          ELSE UpperOf(str[j])]

\* app_commands.Choice(name=value[:100], value=value) (line 495)
ChoiceNameLimit == 100
Choice(value) ==
    [name |-> SubSeq(value, 1, IF Len(value) < ChoiceNameLimit THEN Len(value)
                                ELSE ChoiceNameLimit),
     value |-> value]

\* line 485: query = (current or "").strip()
suggest_query(current) == strip(Or(current, Str(<<>>)).s)

\* line 486, were the shortest query that gets suggestions one character long
too_short_for_one(query) == Len(query) < 1

\* line 486: if len(query) < 2
too_short(query) == Len(query) < 2

\* line 489: variants = {query, query.title(), query.lower()}
suggest_variants(query) == {query, str_title(query), str_lower(query)}

\* the orders in which the for loop of line 492 may go through the set: the iteration
\* order of a set of strings is not fixed
IterationOrders(set) ==
    { order \in [1..Cardinality(set) -> set] : { order[j] : j \in DOMAIN order } = set }

\* lines 490-499: the loop over the variants in the given order
RECURSIVE suggest_loop(_, _)
suggest_loop(order, sofar) ==
    IF order = <<>> THEN sofar
    ELSE IF Head(order) = <<>> THEN suggest_loop(Tail(order), sofar)
    ELSE IF Len(sofar) + 1 >= 5 THEN Append(sofar, Choice(Head(order)))
    ELSE suggest_loop(Tail(order), Append(sofar, Choice(Head(order))))

\* the lists item_lookup_name_autocomplete may return for an argument
item_lookup_name_autocomplete(current) ==
    IF too_short(suggest_query(current)) THEN { <<>> }
    ELSE { suggest_loop(order, <<>>) :
               order \in IterationOrders(suggest_variants(suggest_query(current))) }

-----------------------------------------------------------------------------
(* Specification SpecSuggest: the autocomplete callback applied to what the user typed *)

MaxTyped == 3      \* characters typed
TypedChars == {" ", "a", "B", "1"}
TypedInputs ==
    {None} \cup { Str(s) : s \in UNION { [1..k -> TypedChars] : k \in 0..MaxTyped } }

InitSuggest ==
    /\ NormUnused /\ DocUnused /\ FetchUnused /\ EmbedUnused
    /\ inv = [i \in {1} |-> NotInvoked] /\ channel = <<>> /\ timers = <<>> /\ deletions = <<>>
    /\ typed \in TypedInputs
    /\ choices = Unset

\* the callback runs from its call to its return: it has no await
Autocomplete ==
    /\ choices = Unset
    /\ \E list \in item_lookup_name_autocomplete(typed) : choices' = List(list)
    /\ UNCHANGED <<typed, normVars, docVars, fetchVars, embedVars, botVars>>

NextSuggest == Autocomplete

SpecSuggest == InitSuggest /\ [][NextSuggest]_vars

\* C21: the autocomplete callback returns at most five choices, the value of each is the
\* trimmed input as typed, in title case or in lower case, it returns no choice when the
\* trimmed input has fewer than two characters, and it issues no HTTP request.
C21_SuggestionsAreVariants ==
    choices # Unset =>
        LET query == suggest_query(typed) IN
        /\ Len(choices.l) <= 5
        /\ \A j \in DOMAIN choices.l :
              choices.l[j].value \in {query, str_title(query), str_lower(query)}
        /\ Len(query) < 2 => choices.l = <<>>
        /\ requests = <<>> /\ \A i \in DOMAIN inv : inv[i].locals.requests = <<>>

\* the user typed a word with surrounding blanks whose three variants differ, and all
\* three were offered
C21_Witness ==
    /\ choices # Unset /\ Len(choices.l) = 3
    /\ typed.s # suggest_query(typed)

\* the user typed a single character and got no choice
C21_WitnessShort ==
    /\ choices = List(<<>>) /\ typed # None /\ Len(suggest_query(typed)) = 1

-----------------------------------------------------------------------------
(* Claims about the order of the requests and messages of week_lookup *)

\* the answers invocation i has received from SCMM, and from Discord to its sends (the
\* first answer of Discord is to the defer)
ScmmAnswersTo(i) == SelectSeq(inv[i].answers, LAMBDA a : a.kind # "discord")
SendAnswersTo(i) ==
    SelectSeq(SubSeq(inv[i].answers, 2, Len(inv[i].answers)), LAMBDA a : a.kind = "discord")

\* the requests of invocation i that SCMM has not answered yet
Outstanding(i) == Len(Locals(i).requests) - Len(ScmmAnswersTo(i))

\* the detail requests of week_lookup: those after the store list and the store
DetailRequests(i) ==
    IF Len(Locals(i).requests) <= 2 THEN <<>>
    ELSE SubSeq(Locals(i).requests, 3, Len(Locals(i).requests))

\* the item cards invocation i has sent
CardsOf(i) == SelectSeq(SentBy(i), LAMBDA e : ~IsTruncationNotice(e))

\* the place in the item list of the item a card is about
ItemOfCard(i, card) == CHOOSE k \in DOMAIN Locals(i).items : Locals(i).items[k].name.s = card.title

\* C22: in an invocation of week_lookup at most one HTTP request is outstanding, and one
\* is exactly while the invocation awaits SCMM; the detail requests are those of the
\* items in list order; the request for item k+1 is issued only after the send of the
\* card of item k was answered; and the cards sent are in list order.
C22_SequentialFetches ==
    \A i \in DOMAIN inv :
        LET r == Locals(i)
            reqs == DetailRequests(i)
            cards == CardsOf(i)
            place == [j \in DOMAIN cards |-> ItemOfCard(i, cards[j])]
        IN r.cmd = "week_lookup" =>
            /\ Outstanding(i) = (IF r.pc \in HttpPcs THEN 1 ELSE 0)
            /\ \A j \in DOMAIN reqs :
                  /\ j <= Len(r.items)
                  /\ reqs[j] = ItemUrl(quote(r.items[j].name.s))
            /\ Len(reqs) <= Len(SendAnswersTo(i)) + 1
            /\ Len(reqs) > 0 =>
                  /\ Len(cards) <= Len(reqs)
                  /\ \A j \in DOMAIN cards :
                        \E k \in DOMAIN r.items : r.items[k].name.s = cards[j].title
                  /\ \A j \in DOMAIN cards : j > 1 => place[j - 1] < place[j]

\* week_lookup awaits the details of the last item shown of a store of more than
\* MAX_WEEK_ITEMS items, the cards of all items before it being sent
C22_Witness ==
    /\ PcOf(1) = "http_item" /\ Locals(1).truncated
    /\ Len(DetailRequests(1)) = MAX_WEEK_ITEMS
    /\ Len(CardsOf(1)) = MAX_WEEK_ITEMS - 1

-----------------------------------------------------------------------------
(* Specification SpecBatch: one invocation of week_lookup to which SCMM answers
   anything, any number of times: several detail fetches of one batch may fail, and
   details may arrive that build_store_item_embed cannot render *)

MaxBatch == 3      \* items of a store
BatchItemCounts == 1..MaxBatch

BatchScmmAnswered == \E resp \in ScmmAnswers(1, BatchItemCounts) : ScmmAnswered(1, resp)

NextBatch == WeekInvoked \/ WeekDeferAnswered \/ BatchScmmAnswered \/ WeekSendAnswered

SpecBatch == InitWeek /\ [][NextBatch]_vars

\* the answer of SCMM to the detail request of the j-th item of week_lookup: the answers
\* are those to the defer, the store list and the store, then to the detail request and
\* the send of each item in turn
DetailAnswerOf(i, j) == inv[i].answers[2 + 2 * j]

\* the detail fetches of invocation i that failed
FailedFetches(i) ==
    { j \in DOMAIN Locals(i).items :
          2 + 2 * j <= Len(inv[i].answers) /\ DetailAnswerOf(i, j).kind # "json" }

\* the card of an item that has no details
CardWithoutDetails(r, j) ==
    Embed(r.items[j].name.s, subtitle(r.items[j]),
          <<Field("[cart] Prices", NoDetailsBlock)>> \o details_field(id_lines(r.items[j])),
          footer_label(r.target_date, r.store_id))

\* C23: when week_lookup has run to its end, Discord accepted every send and detail
\* fetches failed, the card of each item whose fetch failed was sent with the price block
\* of an item without details and without stats block, and the cards of all items shown
\* were sent: their number is that of a run in which no fetch fails.
C23_FailedFetchKeepsBatch ==
    \A i \in DOMAIN inv :
        LET r == Locals(i)
            shown == IF r.total_items > MAX_WEEK_ITEMS THEN MAX_WEEK_ITEMS ELSE r.total_items
        IN (r.cmd = "week_lookup" /\ r.pc = "done" /\ AllAccepted(i) /\ FailedFetches(i) # {})
               => /\ Len(CardsOf(i)) = shown
                  /\ \A j \in FailedFetches(i) : CardsOf(i)[j] = CardWithoutDetails(r, j)

\* the part of it that concerns the item whose fetch failed: once the send that follows
\* a failed fetch is accepted, the card of that item is in the channel, without details
FailedFetchCardSent ==
    \A i \in DOMAIN inv :
        \A j \in FailedFetches(i) :
            (Locals(i).cmd = "week_lookup" /\ AllAccepted(i) /\ 3 + 2 * j <= Len(inv[i].answers))
                => /\ j <= Len(CardsOf(i))
                   /\ CardsOf(i)[j] = CardWithoutDetails(Locals(i), j)

-----------------------------------------------------------------------------
(* Claims about follow-ups that Discord refuses and about commands that stop early *)

\* invocation i, waiting in send_followup_autodelete, has just been answered NotFound
RefusedFollowup(i) ==
    /\ PcOf(i) = "send" /\ Locals(i).pending.autodelete
    /\ Len(inv'[i].answers) = Len(inv[i].answers) + 1
    /\ inv'[i].answers[Len(inv'[i].answers)] = Discord("NotFound")

\* C24: when Discord answers NotFound to the send of send_followup_autodelete, no timer is
\* created and no message exists, and the command goes on as after a send, no exception
\* reaching it; every timer is that of a message that was sent, so that there are never
\* more timers than messages.
C24_NoTimerWithoutMessage ==
    /\ [](/\ Len(timers) <= Len(channel)
          /\ \A t \in DOMAIN timers : timers[t].message \in DOMAIN channel)
    /\ [][\A i \in DOMAIN inv :
            RefusedFollowup(i) =>
                /\ timers' = timers /\ channel' = channel
                /\ inv'[i].locals = after_send(Locals(i))
                /\ inv'[i].locals.exit \in {"running", "return"}]_vars

\* week_lookup sent its first card, was refused the second as the interaction had
\* expired, and returned; one message, one timer
C24_Witness ==
    /\ SendAnswersTo(1) = <<Discord("ok"), Discord("NotFound")>>
    /\ PcOf(1) = "done" /\ Locals(1).exit = "return"
    /\ Len(channel) = 1 /\ Len(timers) = 1

C25_WitnessExpired ==
    /\ inv[1].answers = <<Discord("NotFound")>> /\ PcOf(1) = "done"
    /\ Locals(1).cmd = "item_lookup"

=============================================================================
